---- MODULE Spec2Model ----
(***************************************************************************)
(* Model of api-everywhere: the spread sheet range algebra, the header     *)
(* resolver and value fetcher, the JSON structure builder and the          *)
(* self-refreshing token manager.                                          *)
(*                                                                         *)
(* Texts are sequences of one-character strings.  Option<T> is a record:   *)
(* None, or Some(v).  The non-"restricted" build is modelled.              *)
(***************************************************************************)
EXTENDS Integers, Sequences, FiniteSets, TLC

VARIABLES
    \* ---- header resolver / value fetcher -------------------------------
    sheet,              \* the remote spread sheet the gateway answers from
    condition,          \* HeaderSearchCondition
    hpc,                \* position inside fetch_sheet_value / read_raw_headers
    header_range,       \* read_raw_headers: the current probe window
    all_sheet_values,   \* read_raw_headers: Option<SheetValues> accumulated
    requests,           \* every get_sheet_value call issued, in order
    headers,            \* result of read_raw_headers
    query,              \* GetSpreadSheetQuery: offset, limit and row
    row_cond,           \* FetchRowCondition of the call
    response,           \* result of fetch_sheet_value
    create_args,        \* SheetMeta and explicit range given to create
    create_result,      \* result of HeaderSearchCondition::create
    answers,            \* the status of each answered gateway call, in order
    \* ---- json structure builder ----------------------------------------
    strs,               \* the header texts passed to add_value so far
    obj,                \* the root Object under construction
    add_results,        \* outcome of each add_value call
    prev_obj,           \* the root Object before the last add_value call
    built,              \* result of the last build_json
    \* ---- token manager -------------------------------------------------
    tm,                 \* life of the TokenManager: start, join, finish
    refresh_period,     \* token_refresh_period passed to start
    inner_current_token,\* the ArcSwap<AccessToken>
    token_requests,     \* every authenticator request, in the order issued
    stores,             \* every value put into the ArcSwap, in order
    loop_pc,            \* position of the background refresh loop
    loop_deadline,      \* when the loop's current timeout elapses
    loop_req,           \* the loop's token request in flight
    force_pc,           \* position of force_refresh_token
    force_req,          \* its token request in flight
    seen,               \* what the last load() of a reader returned
    now,                \* the clock, in units of 30 seconds
    chan,               \* the broadcast channel of the stop signal
    \* ---- column letters ------------------------------------------------
    col_n,              \* the column index under conversion
    col_alphabet,       \* num_to_alphabet_base_number(col_n), once computed
    col_num,            \* col_alphabet_to_num(col_alphabet), once computed
    \* ---- range and cell texts -----------------------------------------
    range_src,          \* the items the range text was written from
    range_in,          \* the text given to RangeRef::from_str
    range_out,          \* result of RangeRef::from_str(range_in)
    range_fmt,          \* to_string() of the parsed range
    cell_in,       \* the text given to CellRef::from_str
    cell_out,           \* result of CellRef::from_str(cell_in)
    \* ---- range values -------------------------------------------------
    rref,               \* a RangeRef value, once constructed
    rref_prev,          \* the value before the last call on it
    rref_calls,         \* the calls made on it, in order
    rref_text,          \* its to_string()
    rref_back,          \* RangeRef::from_str of that text
    \* ---- cell sanitizer -----------------------------------------------
    cell_value,         \* the text given to Cell::sanitize_str_value
    cell_result         \* what it returned

hvars == <<sheet, condition, hpc, header_range, all_sheet_values, requests,
           headers, query, row_cond, response, create_args, create_result, answers>>
jvars == <<strs, obj, add_results, prev_obj, built>>
tvars == <<tm, refresh_period, inner_current_token, token_requests, stores, loop_pc,
           loop_deadline, loop_req, force_pc, force_req, seen, now, chan>>
cvars == <<col_n, col_alphabet, col_num>>
xvars == <<range_src, range_in, range_out, range_fmt, cell_in, cell_out>>
rvars == <<rref, rref_prev, rref_calls, rref_text, rref_back>>
svars == <<cell_value, cell_result>>
avars == <<cvars, xvars, rvars, svars>>
vars == <<hvars, jvars, tvars, avars>>

None == [some |-> FALSE]
Some(v) == [some |-> TRUE, v |-> v]

Min(S) == CHOOSE x \in S : \A y \in S : x <= y
Max(S) == CHOOSE x \in S : \A y \in S : x >= y

\* usize and i64, scaled from 64 bits to UsizeBits bits.
UsizeBits == 16
USIZE_MAX == 2 ^ UsizeBits - 1
I64_MAX == 2 ^ (UsizeBits - 1) - 1
I64_MIN == 0 - 2 ^ (UsizeBits - 1)

(***************************************************************************)
(* RangeAlgebra (range.rs)                                                 *)
(***************************************************************************)
ALPHABET == <<"A", "B", "C", "D", "E", "F", "G", "H", "I", "J", "K", "L", "M",
              "N", "O", "P", "Q", "R", "S", "T", "U", "V", "W", "X", "Y", "Z">>

\* alpha_to_num: 'A' -> 0 .. 'Z' -> 25, an error for any other character.
alpha_to_num(c) ==
    IF \E i \in 1..26 : ALPHABET[i] = c
    THEN [ok |-> TRUE, v |-> (CHOOSE i \in 1..26 : ALPHABET[i] = c) - 1]
    ELSE [ok |-> FALSE, err |-> "ColumnAlphabetOutOfRange"]

\* num_to_alphabet_base_number: 0 -> "A", 25 -> "Z", 26 -> "AA".
RECURSIVE num_to_alphabet_base_number(_)
num_to_alphabet_base_number(n) ==
    LET m == n % 26
        d == n \div 26
    IN  IF d = 0
        THEN <<ALPHABET[m + 1]>>
        ELSE num_to_alphabet_base_number(d - 1) \o <<ALPHABET[m + 1]>>

\* col_alphabet_to_num: the last letter counts its value, every other letter
\* counts (value + 1) * 26.
RECURSIVE col_alphabet_to_num_from(_, _, _)
col_alphabet_to_num_from(chars, i, result) ==
    IF i > Len(chars)
    THEN [ok |-> TRUE, v |-> result]
    ELSE LET num_at_digit == alpha_to_num(chars[i])
             digit == Len(chars) - i + 1
         IN  IF ~num_at_digit.ok
             THEN num_at_digit
             ELSE col_alphabet_to_num_from(chars, i + 1,
                      IF digit = 1
                      THEN result + num_at_digit.v
                      ELSE result + (num_at_digit.v + 1) * 26)

\* col_alphabet_to_num counting the columns from 1.
col_alphabet_to_num_mut(chars) == col_alphabet_to_num_from(chars, 1, 1)

col_alphabet_to_num(chars) == col_alphabet_to_num_from(chars, 1, 0)

CellRef(col_index, row_index) == [col_index |-> col_index, row_index |-> row_index]

RangeRef(sheet_name, start, end) == [sheet_name |-> sheet_name, start |-> start, end |-> end]

is_at_left_upper_or_same_as(a, b) ==
    IF a.col_index > b.col_index THEN FALSE
    ELSE IF a.row_index > b.row_index THEN FALSE
    ELSE TRUE

\* RangeRef::validate
RangeValidate(r) == is_at_left_upper_or_same_as(r.start, r.end)

next_row_index(r) == r.end.row_index + 1

col_range_indices(r) == <<r.start.col_index, r.end.col_index>>

col_range_size(r) == r.end.col_index - r.start.col_index + 1

is_one_line_row(r) == r.start.row_index = r.end.row_index

contains(a, b) ==
    /\ a.start.col_index <= b.start.col_index
    /\ a.start.row_index <= b.start.row_index
    /\ a.end.col_index >= b.end.col_index
    /\ a.end.row_index >= b.end.row_index

\* expand that leaves the end row alone.
expand_mut(a, b) ==
    IF contains(a, b) THEN a
    ELSE [a EXCEPT
            !.start.col_index = IF b.start.col_index < @ THEN b.start.col_index ELSE @,
            !.start.row_index = IF b.start.row_index < @ THEN b.start.row_index ELSE @,
            !.end.col_index = IF b.end.col_index > @ THEN b.end.col_index ELSE @]

\* RangeRef::expand: grow a to cover b.
expand(a, b) ==
    IF contains(a, b) THEN a
    ELSE [a EXCEPT
            !.start.col_index = IF b.start.col_index < @ THEN b.start.col_index ELSE @,
            !.start.row_index = IF b.start.row_index < @ THEN b.start.row_index ELSE @,
            !.end.col_index = IF b.end.col_index > @ THEN b.end.col_index ELSE @,
            !.end.row_index = IF b.end.row_index > @ THEN b.end.row_index ELSE @]

\* RangeRef::set_end_col_index: the field is assigned before validate runs.
set_end_col_index(r, col_index) ==
    LET r2 == [r EXCEPT !.end.col_index = col_index]
    IN  [ok |-> RangeValidate(r2), range |-> r2]

\* RangeRef::shift_in_col
shift_in_col(r, shift) ==
    LET start_col_index == r.start.col_index + shift
        end_col_index == r.end.col_index + shift
    IN  IF start_col_index < 0 \/ end_col_index < 0
        THEN [ok |-> FALSE, range |-> r]
        ELSE [ok |-> TRUE,
              range |-> [r EXCEPT !.start.col_index = start_col_index,
                                  !.end.col_index = end_col_index]]

\* Display for RangeRef, as the lexical items of the text: the sheet name,
\* the column letters and the 1-based row numbers of both cells.
RangeAsString(r) ==
    [sheet_name |-> r.sheet_name,
     start_col |-> num_to_alphabet_base_number(r.start.col_index),
     start_row |-> r.start.row_index + 1,
     end_col |-> num_to_alphabet_base_number(r.end.col_index),
     end_row |-> r.end.row_index + 1]

\* CellRef::from_row_and_col
from_row_and_col(col_alpha, row_num) ==
    LET col_index == col_alphabet_to_num(col_alpha)
    IN  IF ~col_index.ok THEN col_index
        ELSE IF row_num = 0 THEN [ok |-> FALSE, err |-> "InvalidCellRefString"]
        ELSE [ok |-> TRUE, v |-> CellRef(col_index.v, row_num - 1)]

\* RangeRef::from_str over the lexical items of a range text.
RangeFromStr(text) ==
    LET start == from_row_and_col(text.start_col, text.start_row)
        end == from_row_and_col(text.end_col, text.end_row)
    IN  IF ~start.ok THEN start
        ELSE IF ~end.ok THEN end
        ELSE LET range_ref == RangeRef(text.sheet_name, start.v, end.v)
             IN  IF RangeValidate(range_ref)
                 THEN [ok |-> TRUE, v |-> range_ref]
                 ELSE [ok |-> FALSE, err |-> "InvalidRangeDirection"]

SINGLE_QUOTE == "'"
BANG == "!"
COLON == ":"
LINE_FEED == "\n"
DIGITS == <<"0", "1", "2", "3", "4", "5", "6", "7", "8", "9">>

\* The character classes [A-Z] and [0-9].
IsUpper(c) == \E i \in 1..Len(ALPHABET) : ALPHABET[i] = c
IsDigit(c) == \E i \in 1..Len(DIGITS) : DIGITS[i] = c

\* The last position of the longest run of [A-Z] (of [0-9]) that starts at
\* q; q - 1 when there is none.
LettersEnd(s, q) ==
    Max({q - 1} \cup {j \in q..Len(s) : \A k \in q..j : IsUpper(s[k])})
DigitsEnd(s, q) ==
    Max({q - 1} \cup {j \in q..Len(s) : \A k \in q..j : IsDigit(s[k])})

\* [A-Z]+[0-9]+ matched at position q: both repetitions are greedy and what
\* follows them in the regexes is neither a letter nor a digit, so they take
\* the whole runs.
CellAt(s, q) ==
    LET le == LettersEnd(s, q)
        de == DigitsEnd(s, le + 1)
    IN  IF le >= q /\ de >= le + 1
        THEN [ok |-> TRUE, col |-> SubSeq(s, q, le), row |-> SubSeq(s, le + 1, de),
              next |-> de + 1]
        ELSE [ok |-> FALSE]

\* [A-Z]+[0-9]+:[A-Z]+[0-9]+ matched at position q.
RangeAt(s, q) ==
    LET a == CellAt(s, q)
    IN  IF ~a.ok THEN [ok |-> FALSE]
        ELSE IF a.next > Len(s) \/ s[a.next] # COLON THEN [ok |-> FALSE]
        ELSE LET b == CellAt(s, a.next + 1)
             IN  IF ~b.ok THEN [ok |-> FALSE]
                 ELSE [ok |-> TRUE, START_RANGE_COL |-> a.col, START_RANGE_ROW |-> a.row,
                       END_RANGE_COL |-> b.col, END_RANGE_ROW |-> b.row]

\* !? and the two cells after a sheet name that ends before position q.
RangeAfterName(s, q) ==
    RangeAt(s, IF q <= Len(s) /\ s[q] = BANG /\ RangeAt(s, q + 1).ok THEN q + 1 ELSE q)

\* valid_range_regex: the lengths the lazy (?P<SHEET_NAME>.*?) can have in a
\* match that starts at p; "." matches no line feed.
SheetNameLens(s, p) ==
    {k \in 0..(Len(s) - p + 1) :
        /\ \A i \in p..(p + k - 1) : s[i] # LINE_FEED
        /\ RangeAfterName(s, p + k).ok}

\* The named groups of a match of valid_range_regex: the sheet name and the
\* letters and digits of the two cells.
RangeCaptures(sheet_name, m) ==
    [SHEET_NAME |-> sheet_name,
     START_RANGE_COL |-> m.START_RANGE_COL, START_RANGE_ROW |-> m.START_RANGE_ROW,
     END_RANGE_COL |-> m.END_RANGE_COL, END_RANGE_ROW |-> m.END_RANGE_ROW]

\* valid_range_regex().captures: the regex is not anchored; the match is the
\* leftmost one, with the shortest sheet name.
valid_range_regex(s) ==
    LET starts == {p \in 1..(Len(s) + 1) : SheetNameLens(s, p) # {}}
    IN  IF starts = {} THEN None
        ELSE LET p == Min(starts)
                 k == Min(SheetNameLens(s, p))
             IN  Some(RangeCaptures(SubSeq(s, p, p + k - 1), RangeAfterName(s, p + k)))

\* valid_cell_ref_regex().captures: the leftmost [A-Z]+[0-9]+.
valid_cell_ref_regex(s) ==
    LET starts == {p \in 1..Len(s) : CellAt(s, p).ok}
    IN  IF starts = {} THEN None
        ELSE LET m == CellAt(s, Min(starts))
             IN  Some([RANGE_COL |-> m.col, RANGE_ROW |-> m.row])

\* quoted_sheet_name().captures: '(?P<SHEET_NAME>.*)' at the leftmost quote
\* that has a later quote on its line, up to the last such quote.
QuotedNameEnds(s, i) ==
    {j \in (i + 1)..Len(s) :
        /\ s[j] = SINGLE_QUOTE
        /\ \A k \in (i + 1)..(j - 1) : s[k] # LINE_FEED}

quoted_sheet_name(s) ==
    LET starts == {i \in 1..Len(s) : s[i] = SINGLE_QUOTE /\ QuotedNameEnds(s, i) # {}}
    IN  IF starts = {} THEN None
        ELSE LET i == Min(starts)
                 j == Max(QuotedNameEnds(s, i))
             IN  Some(SubSeq(s, i + 1, j - 1))

\* str::replace("''", "'"): left to right, non-overlapping.
RECURSIVE ReplaceDoubledQuote(_)
ReplaceDoubledQuote(s) ==
    IF Len(s) = 0 THEN s
    ELSE IF Len(s) >= 2 /\ s[1] = SINGLE_QUOTE /\ s[2] = SINGLE_QUOTE
    THEN <<SINGLE_QUOTE>> \o ReplaceDoubledQuote(SubSeq(s, 3, Len(s)))
    ELSE <<s[1]>> \o ReplaceDoubledQuote(SubSeq(s, 2, Len(s)))

sanitize_sheet_name(sheet_name) ==
    IF sheet_name = <<>> THEN [ok |-> TRUE, v |-> None]
    ELSE LET capture == quoted_sheet_name(sheet_name)
         IN  IF ~capture.some
             THEN IF \E i \in 1..Len(sheet_name) : sheet_name[i] = SINGLE_QUOTE
                  THEN [ok |-> FALSE, err |-> "InvalidSheetName"]
                  ELSE [ok |-> TRUE, v |-> Some(sheet_name)]
             ELSE [ok |-> TRUE, v |-> Some(ReplaceDoubledQuote(capture.v))]

\* str::parse::<usize> of a text of digits.
RECURSIVE DecimalValue(_)
DecimalValue(digits) ==
    IF Len(digits) = 0 THEN 0
    ELSE DecimalValue(SubSeq(digits, 1, Len(digits) - 1)) * 10
         + (CHOOSE i \in 1..Len(DIGITS) : DIGITS[i] = digits[Len(digits)]) - 1

ParseUsize(digits) ==
    IF DecimalValue(digits) > USIZE_MAX
    THEN [ok |-> FALSE, err |-> "InvalidCellRefString"]
    ELSE [ok |-> TRUE, v |-> DecimalValue(digits)]

\* Display of a usize.
RECURSIVE UsizeToString(_)
UsizeToString(n) ==
    IF n < 10 THEN <<DIGITS[n + 1]>>
    ELSE UsizeToString(n \div 10) \o <<DIGITS[(n % 10) + 1]>>

\* CellRef::from_row_and_col on the captured texts.
CellFromCaptures(col_alpha, row_num_str) ==
    LET row_num == ParseUsize(row_num_str)
    IN  IF ~col_alphabet_to_num(col_alpha).ok THEN col_alphabet_to_num(col_alpha)
        ELSE IF ~row_num.ok THEN row_num
        ELSE from_row_and_col(col_alpha, row_num.v)

\* impl FromStr for CellRef
CellRefFromStr(cell_ref_str) ==
    LET capture == valid_cell_ref_regex(cell_ref_str)
    IN  IF ~capture.some THEN [ok |-> FALSE, err |-> "InvalidCellRefString"]
        ELSE CellFromCaptures(capture.v.RANGE_COL, capture.v.RANGE_ROW)

\* impl FromStr for RangeRef, after the three parts were converted: the
\* first failure is returned, else the range is built and validated.
RangeFromParts(sheet_name, start, end) ==
    IF ~sheet_name.ok THEN sheet_name
    ELSE IF ~start.ok THEN start
    ELSE IF ~end.ok THEN end
    ELSE IF RangeValidate(RangeRef(sheet_name.v, start.v, end.v))
         THEN [ok |-> TRUE, v |-> RangeRef(sheet_name.v, start.v, end.v)]
         ELSE [ok |-> FALSE, err |-> "InvalidRangeDirection"]

\* impl FromStr for RangeRef, from the captures of a match.
RangeFromCaptures(capture) ==
    RangeFromParts(IF capture.SHEET_NAME = <<>> THEN [ok |-> TRUE, v |-> None]
                   ELSE sanitize_sheet_name(capture.SHEET_NAME),
                   CellFromCaptures(capture.START_RANGE_COL, capture.START_RANGE_ROW),
                   CellFromCaptures(capture.END_RANGE_COL, capture.END_RANGE_ROW))

\* impl FromStr for RangeRef
RangeRefFromStr(range_str) ==
    IF ~valid_range_regex(range_str).some
    THEN [ok |-> FALSE, err |-> "InvalidRangeString"]
    ELSE RangeFromCaptures(valid_range_regex(range_str).v)

\* impl Display for CellRef
CellRefToString(cell) ==
    num_to_alphabet_base_number(cell.col_index) \o UsizeToString(cell.row_index + 1)

\* impl Display for RangeRef: the sheet name is written between single
\* quotes as it is.
RangeRefToString(r) ==
    IF r.sheet_name.some
    THEN <<SINGLE_QUOTE>> \o r.sheet_name.v \o <<SINGLE_QUOTE, BANG>>
             \o CellRefToString(r.start) \o <<COLON>> \o CellRefToString(r.end)
    ELSE CellRefToString(r.start) \o <<COLON>> \o CellRefToString(r.end)

(***************************************************************************)
(* CellSanitizer (cell.rs)                                                 *)
(***************************************************************************)
QUOTE == "\""
BACKSLASH == "\\"
NEWLINE == "\n"

\* str::replace(r#"\""#, r#"""#): left to right, non-overlapping.
RECURSIVE ReplaceEscapedQuote(_)
ReplaceEscapedQuote(s) ==
    IF Len(s) = 0 THEN s
    ELSE IF Len(s) >= 2 /\ s[1] = BACKSLASH /\ s[2] = QUOTE
    THEN <<QUOTE>> \o ReplaceEscapedQuote(SubSeq(s, 3, Len(s)))
    ELSE <<s[1]>> \o ReplaceEscapedQuote(SubSeq(s, 2, Len(s)))

\* The unanchored regex "(?P<VALUE>.*)" : the leftmost quote that has a later
\* quote on the same line, and greedily the last such quote.
QuoteMatchEnds(s, i) ==
    {j \in (i + 1)..Len(s) :
        /\ s[j] = QUOTE
        /\ \A k \in (i + 1)..(j - 1) : s[k] # NEWLINE}

QuoteMatchStarts(s) ==
    {i \in 1..Len(s) : s[i] = QUOTE /\ QuoteMatchEnds(s, i) # {}}

\* Cell::sanitize_str_value
sanitize_str_value(s) ==
    IF QuoteMatchStarts(s) = {}
    THEN IF \E i \in 1..Len(s) : s[i] = QUOTE
         THEN [ok |-> FALSE, err |-> "InvalidCellValue"]
         ELSE [ok |-> TRUE, v |-> s]
    ELSE LET i == Min(QuoteMatchStarts(s))
             j == Max(QuoteMatchEnds(s, i))
         IN  [ok |-> TRUE, v |-> ReplaceEscapedQuote(SubSeq(s, i + 1, j - 1))]

\* JsonValue::to_string of a JSON string: the text in double quotes, with
\* quote and backslash escaped.
RECURSIVE JsonEscape(_)
JsonEscape(s) ==
    IF Len(s) = 0 THEN s
    ELSE (IF s[1] = QUOTE \/ s[1] = BACKSLASH THEN <<BACKSLASH, s[1]>> ELSE <<s[1]>>)
         \o JsonEscape(SubSeq(s, 2, Len(s)))

JsonToString(cell) == <<QUOTE>> \o JsonEscape(cell) \o <<QUOTE>>

(***************************************************************************)
(* Gateway: the remote spread sheet answering get_sheet_value              *)
(* (api/operation.rs).  A sheet is a list of tabs with their grid sizes;   *)
(* row 1 of every tab holds the header cells, a set of them empty.         *)
(***************************************************************************)
\* The largest column count a tab reports.
MaxColumnCount == 54

\* The text of the cell at (row r, column c), both zero-based.  Column B of
\* the first row holds a double quote inside its text.
SheetCell(empty_cols, r, c) ==
    IF r = 0
    THEN IF c \in empty_cols THEN <<>>
         ELSE IF c = 1 THEN <<"h", QUOTE>> \o num_to_alphabet_base_number(c)
         ELSE <<"h">> \o num_to_alphabet_base_number(c)
    ELSE IF (r + c) % 3 = 0 THEN <<>>
         ELSE <<"v">> \o num_to_alphabet_base_number(c) \o <<"_">>
                  \o num_to_alphabet_base_number(r)

\* Sheet::find_property_by_name
find_property_by_name(sheets, name) ==
    IF ~name.some
    THEN IF Len(sheets) = 0 THEN None ELSE Some(sheets[1])
    ELSE IF \E i \in 1..Len(sheets) : sheets[i].title = name.v
         THEN Some(sheets[Min({i \in 1..Len(sheets) : sheets[i].title = name.v})])
         ELSE None

\* The column index the remote service reads from column letters
\* (bijective base 26).
RECURSIVE A1ColumnIndex(_)
A1ColumnIndex(letters) ==
    IF Len(letters) = 0 THEN -1
    ELSE (A1ColumnIndex(SubSeq(letters, 1, Len(letters) - 1)) + 1) * 26
         + alpha_to_num(letters[Len(letters)]).v

\* The service omits the trailing empty cells of a row and the trailing
\* empty rows of a range.
RECURSIVE TrimTrailing(_, _)
TrimTrailing(s, empty) ==
    IF Len(s) = 0 THEN s
    ELSE IF s[Len(s)] = empty THEN TrimTrailing(SubSeq(s, 1, Len(s) - 1), empty)
    ELSE s

\* spreadsheets.values.batchGet on one range: the echoed range is the
\* requested one cut to the grid of the tab.
GatewayValues(sh, text) ==
    LET prop == find_property_by_name(sh.sheets, text.sheet_name)
    IN  IF ~prop.some THEN [status |-> "bad_request"]
        ELSE
        LET sc == A1ColumnIndex(text.start_col)
            ec == A1ColumnIndex(text.end_col)
            sr == text.start_row - 1
            er == text.end_row - 1
            ecl == IF ec < prop.v.column_count THEN ec ELSE prop.v.column_count - 1
            erl == IF er < prop.v.row_count THEN er ELSE prop.v.row_count - 1
        IN  IF sc >= prop.v.column_count \/ sr >= prop.v.row_count
                \/ sc > ec \/ sr > er
            THEN [status |-> "bad_request"]
            ELSE
            LET rows == [r \in 1..(erl - sr + 1) |->
                            TrimTrailing([i \in 1..(ecl - sc + 1) |->
                                SheetCell(sh.empty_cols, sr + r - 1, sc + i - 1)], <<>>)]
                trimmed == TrimTrailing(rows, <<>>)
            IN  [status |-> "ok",
                 sheet_values |->
                   [value_ranges |-> Some(<<
                      [range |-> [sheet_name |-> Some(prop.v.title),
                                  start_col |-> num_to_alphabet_base_number(sc),
                                  start_row |-> sr + 1,
                                  end_col |-> num_to_alphabet_base_number(ecl),
                                  end_row |-> erl + 1],
                       values |-> IF Len(trimmed) = 0 THEN None ELSE Some(trimmed)]>>)]]

\* What one get_sheet_value call can return: the answer of the service, or
\* a NotFound, BadRequest or transport (reqwest) failure.
GatewayOutcomes(sh, text) ==
    {GatewayValues(sh, text), [status |-> "not_found"], [status |-> "bad_request"],
     [status |-> "transport_error"]}

\* SheetValues::merge
SheetValuesMerge(self, other) ==
    IF ~other.value_ranges.some THEN self
    ELSE IF ~self.value_ranges.some THEN [self EXCEPT !.value_ranges = other.value_ranges]
    ELSE [self EXCEPT !.value_ranges = Some(@.v \o other.value_ranges.v)]

(***************************************************************************)
(* HeaderResolver (header.rs)                                              *)
(***************************************************************************)
Err(e) == [ok |-> FALSE, err |-> e]

\* HeaderSearchCondition::as_range
as_range(cond) ==
    IF cond.specified_cell_range.some
    THEN Some(RangeRef(cond.sheet_name, cond.specified_cell_range.v[1],
                       cond.specified_cell_range.v[2]))
    ELSE None

\* default_header_range: A1:Z1
default_header_range(sheet_name) == RangeRef(sheet_name, CellRef(0, 0), CellRef(25, 0))

\* RecordHeader::empty_values
empty_values(len) == [i \in 1..len |-> <<>>]

\* RecordHeader::new over every cell of a row: the sanitized labels, or the
\* first CellError.
RecordHeaders(cells) ==
    LET sanitized == [i \in 1..Len(cells) |-> sanitize_str_value(JsonToString(cells[i]))]
    IN  IF \E i \in 1..Len(cells) : ~sanitized[i].ok
        THEN Err("CellError")
        ELSE [ok |-> TRUE, v |-> [i \in 1..Len(cells) |-> sanitized[i].v]]

\* The cell ends the headers: its JSON text is empty or is two double quotes.
IsEmptyHeaderCell(cell) ==
    JsonToString(cell) = <<>> \/ JsonToString(cell) = <<QUOTE, QUOTE>>

\* slice::split(..).next(): the cells before the first empty one.
EmptySplitedHeaders(cells) ==
    LET empties == {i \in 1..Len(cells) : IsEmptyHeaderCell(cells[i])}
    IN  IF empties = {} THEN cells ELSE SubSeq(cells, 1, Min(empties) - 1)

\* RawHeaders::convert_from, one value range: the labels and the range they
\* occupy, given whether a range was merged before.
ConvertEach(each_value_range, each_response_header_range, specified_range, merged_some) ==
    LET each_header_values == each_value_range.values.v[1]
    IN  IF specified_range
        THEN IF Len(each_header_values) = 0
             THEN [ok |-> TRUE,
                   headers |-> empty_values(col_range_size(each_response_header_range)),
                   range |-> each_response_header_range]
             ELSE LET hs == RecordHeaders(each_header_values)
                      padding_size == col_range_size(each_response_header_range)
                                        - Len(each_header_values)
                  IN  IF ~hs.ok THEN hs
                      ELSE [ok |-> TRUE,
                            headers |-> IF padding_size > 0
                                        THEN hs.v \o empty_values(padding_size)
                                        ELSE hs.v,
                            range |-> each_response_header_range]
        ELSE LET hs == RecordHeaders(EmptySplitedHeaders(each_header_values))
             IN  IF ~hs.ok THEN hs
                 ELSE IF Len(hs.v) = 0
                 THEN IF ~merged_some
                      THEN Err("EmptyHeaderValues")
                      ELSE [ok |-> TRUE, headers |-> <<>>,
                            range |-> each_response_header_range]
                 ELSE LET r == set_end_col_index(each_response_header_range,
                                   each_response_header_range.start.col_index
                                     + Len(hs.v) - 1)
                      IN  IF ~r.ok THEN Err("UnknwonError")
                          ELSE [ok |-> TRUE, headers |-> hs.v, range |-> r.range]

\* RawHeaders::convert_from, the loop over the value ranges from the i-th on.
RECURSIVE ConvertLoop(_, _, _, _, _)
ConvertLoop(value_ranges, i, merged_range, all_headers, specified_range) ==
    LET finish == IF ~merged_range.some
                  THEN Err("EmptyHeaderValues")
                  ELSE [ok |-> TRUE, range |-> merged_range.v, values |-> all_headers]
    IN  IF i > Len(value_ranges) THEN finish
        ELSE
        LET each_value_range == value_ranges[i]
            parsed == RangeFromStr(each_value_range.range)
        IN  IF ~parsed.ok THEN Err("InvalidRangeRefInReturnedValue")
            ELSE IF ~each_value_range.values.some THEN finish
            ELSE IF Len(each_value_range.values.v) = 0 THEN finish
            ELSE
            LET each == ConvertEach(each_value_range, parsed.v, specified_range,
                                    merged_range.some)
            IN  IF ~each.ok THEN each
                ELSE ConvertLoop(value_ranges, i + 1,
                         IF ~merged_range.some
                         THEN Some(each.range)
                         ELSE Some(expand(merged_range.v, each.range)),
                         all_headers \o each.headers, specified_range)

\* RawHeaders::convert_from
convert_from(value_ranges, specified_range) ==
    IF Len(value_ranges) = 0
    THEN Err("InvalidRangeRefInReturnedValue")
    ELSE ConvertLoop(value_ranges, 1, None, <<>>, specified_range)

\* read_raw_headers, the loop's test of a fetched window: "if returned value
\* contains empty data or blank data, finish the loop".
is_break(sheet_values) ==
    IF ~sheet_values.value_ranges.some THEN TRUE
    ELSE IF Len(sheet_values.value_ranges.v) = 0 THEN TRUE
    ELSE LET first_value_line == sheet_values.value_ranges.v[1]
         IN  IF ~first_value_line.values.some THEN TRUE
             ELSE IF Len(first_value_line.values.v) = 0 THEN TRUE
             ELSE LET line_values == first_value_line.values.v[1]
                  IN  \E i \in 1..Len(line_values) : JsonToString(line_values[i]) = <<>>

\* read_raw_headers after the loop: the accumulated values become headers.
AfterLoop(asv, specified_range) ==
    IF ~asv.some THEN Err("EmptyHeaderValues")
    ELSE IF ~asv.v.value_ranges.some THEN Err("EmptyHeaderValueRanges")
    ELSE IF Len(asv.v.value_ranges.v) = 0 THEN Err("EmptyHeaderValueRanges")
    ELSE convert_from(asv.v.value_ranges.v, specified_range)

\* LoopTop leaving the loop only when the window starts beyond the column
\* count.
LoopTop_mut(hr, asv, max_col_count_of_grid) ==
    IF max_col_count_of_grid < hr.start.col_index
    THEN /\ hpc' = "headers_done"
         /\ headers' = Some(AfterLoop(asv, condition.specified_cell_range.some))
         /\ requests' = requests
    ELSE /\ hpc' = "probing"
         /\ headers' = headers
         /\ requests' = Append(requests, [kind |-> "header", text |-> RangeAsString(hr)])

\* read_raw_headers at the top of the loop: leave the loop when the window
\* starts at or beyond the column count, else fetch the window.
LoopTop(hr, asv, max_col_count_of_grid) ==
    IF max_col_count_of_grid <= hr.start.col_index
    THEN /\ hpc' = "headers_done"
         /\ headers' = Some(AfterLoop(asv, condition.specified_cell_range.some))
         /\ requests' = requests
    ELSE /\ hpc' = "probing"
         /\ headers' = headers
         /\ requests' = Append(requests, [kind |-> "header", text |-> RangeAsString(hr)])

MaxColCountOfGrid == find_property_by_name(condition.sheet_info, condition.sheet_name)

HeaderFailed(e) ==
    /\ hpc' = "headers_done"
    /\ headers' = Some(Err(e))
    /\ requests' = requests

\* read_raw_headers from its entry to the first get_sheet_value call.
ReadRawHeadersStart ==
    /\ hpc = "start"
    /\ LET hr == IF as_range(condition).some
                 THEN as_range(condition).v
                 ELSE default_header_range(condition.sheet_name)
       IN  /\ header_range' = hr
           /\ all_sheet_values' = None
           /\ IF ~is_one_line_row(hr)
              THEN HeaderFailed("UnsupportedMultipleHeader")
              ELSE IF ~MaxColCountOfGrid.some
              THEN HeaderFailed("UnknwonError")
              ELSE LoopTop(hr, None, MaxColCountOfGrid.v.column_count)
    /\ UNCHANGED <<sheet, condition, query, row_cond, response, create_args, create_result,
                   answers, jvars, tvars, avars>>

\* read_raw_headers from the answer of a get_sheet_value call to the next
\* call, or to its return.
ProbeResponse ==
    /\ hpc = "probing"
    /\ \E out \in GatewayOutcomes(sheet, requests[Len(requests)].text) :
         /\ answers' = Append(answers, out.status)
         /\ IF out.status = "not_found"
            THEN /\ HeaderFailed("SpreadSheetNotFound")
                 /\ UNCHANGED <<header_range, all_sheet_values>>
            ELSE IF out.status \in {"bad_request", "transport_error"}
            THEN /\ HeaderFailed("FetchHeaderApiError")
                 /\ UNCHANGED <<header_range, all_sheet_values>>
            ELSE IF condition.specified_cell_range.some
            THEN /\ all_sheet_values' = Some(out.sheet_values)
                 /\ header_range' = header_range
                 /\ hpc' = "headers_done"
                 /\ headers' = Some(AfterLoop(Some(out.sheet_values), TRUE))
                 /\ requests' = requests
            ELSE LET merged == IF ~all_sheet_values.some
                               THEN Some(out.sheet_values)
                               ELSE Some(SheetValuesMerge(all_sheet_values.v, out.sheet_values))
                 IN  /\ all_sheet_values' = merged
                     /\ IF is_break(out.sheet_values)
                        THEN /\ header_range' = header_range
                             /\ hpc' = "headers_done"
                             /\ headers' = Some(AfterLoop(merged, FALSE))
                             /\ requests' = requests
                        ELSE /\ header_range' = shift_in_col(header_range, 26).range
                             /\ LoopTop(shift_in_col(header_range, 26).range, merged,
                                        MaxColCountOfGrid.v.column_count)
    /\ UNCHANGED <<sheet, condition, query, row_cond, response, create_args, create_result,
                   jvars, tvars, avars>>

(***************************************************************************)
(* ValueFetcher (value.rs, mod.rs)                                         *)
(***************************************************************************)
DEFAULT_ROW_NUMBER_TO_READ_AT_ONCE == 100
MAX_ROW_NUMBER_TO_READ_AT_ONCE == 10000

\* usize + usize in wrapping arithmetic, and whether it overflows.
UsizeAdd(a, b) == (a + b) % (USIZE_MAX + 1)
UsizeAddOverflows(a, b) == a + b > USIZE_MAX

\* usize as i64: the same bits read as a signed integer.
AsI64(n) == IF n > I64_MAX THEN n - (USIZE_MAX + 1) ELSE n

\* i64 - i64 in wrapping arithmetic, and whether it overflows.
I64Sub(a, b) ==
    IF a - b > I64_MAX THEN a - b - (USIZE_MAX + 1)
    ELSE IF a - b < I64_MIN THEN a - b + (USIZE_MAX + 1)
    ELSE a - b
I64SubOverflows(a, b) == a - b > I64_MAX \/ a - b < I64_MIN

\* ReadValueOption::validate, and whether its subtraction overflows.
ReadValueOptionValidate(option) ==
    LET row_num == I64Sub(AsI64(option.end_row_idx), AsI64(option.start_row_idx))
    IN  IF row_num < 0 THEN Err("InvalidRowNumber")
        ELSE IF row_num > MAX_ROW_NUMBER_TO_READ_AT_ONCE THEN Err("TooManyRowNumber")
        ELSE [ok |-> TRUE]

ValidateOverflows(option) ==
    I64SubOverflows(AsI64(option.end_row_idx), AsI64(option.start_row_idx))

\* fetch_sheet_value: the row window (start_row_idx, finish_row_idx,
\* pagination_in_response) of a row condition.
RowWindow(hdrs, rc) ==
    IF rc.specific_row_idx.some
    THEN LET row_idx == UsizeAdd(next_row_index(hdrs.range), rc.specific_row_idx.v)
         IN  [start_row_idx |-> row_idx, finish_row_idx |-> row_idx, pagination |-> None]
    ELSE LET offset == IF ~rc.pagination.some THEN 0
                       ELSE IF rc.pagination.v.offset.some THEN rc.pagination.v.offset.v
                       ELSE 0
             limit == IF ~rc.pagination.some THEN DEFAULT_ROW_NUMBER_TO_READ_AT_ONCE
                      ELSE IF rc.pagination.v.limit.some THEN rc.pagination.v.limit.v
                      ELSE DEFAULT_ROW_NUMBER_TO_READ_AT_ONCE
             start_row_idx == UsizeAdd(next_row_index(hdrs.range), offset)
         IN  [start_row_idx |-> start_row_idx,
              finish_row_idx |-> UsizeAdd(start_row_idx, limit),
              pagination |-> Some([offset |-> Some(offset), limit |-> Some(limit)])]

\* Whether an addition of RowWindow overflows.
RowWindowOverflows(hdrs, rc) ==
    IF rc.specific_row_idx.some
    THEN UsizeAddOverflows(next_row_index(hdrs.range), rc.specific_row_idx.v)
    ELSE LET offset == IF ~rc.pagination.some THEN 0
                       ELSE IF rc.pagination.v.offset.some THEN rc.pagination.v.offset.v
                       ELSE 0
             limit == IF ~rc.pagination.some THEN DEFAULT_ROW_NUMBER_TO_READ_AT_ONCE
                      ELSE IF rc.pagination.v.limit.some THEN rc.pagination.v.limit.v
                      ELSE DEFAULT_ROW_NUMBER_TO_READ_AT_ONCE
         IN  \/ UsizeAddOverflows(next_row_index(hdrs.range), offset)
             \/ UsizeAddOverflows(UsizeAdd(next_row_index(hdrs.range), offset), limit)

\* RowValues::read_values up to its get_sheet_value call: the range text to
\* fetch, or the error returned before any fetch.
ReadValuesRequest(option) ==
    IF ~ReadValueOptionValidate(option).ok THEN ReadValueOptionValidate(option)
    ELSE IF option.col_range[1] > option.col_range[2] THEN Err("InvalidColRange")
    ELSE [ok |-> TRUE,
          text |-> RangeAsString(RangeRef(option.sheet_name,
                       CellRef(option.col_range[1], option.start_row_idx),
                       CellRef(option.col_range[2], option.end_row_idx)))]

\* PadRows filling on the left.
PadRows_mut(sheet_values, col_size) ==
    IF ~sheet_values.value_ranges.some THEN <<>>
    ELSE IF Len(sheet_values.value_ranges.v) = 0 THEN <<>>
    ELSE LET first_values == sheet_values.value_ranges.v[1]
         IN  IF ~first_values.values.some THEN <<>>
             ELSE [r \in 1..Len(first_values.values.v) |->
                     LET each_row == first_values.values.v[r]
                     IN  IF Len(each_row) < col_size
                         THEN [i \in 1..(col_size - Len(each_row)) |-> <<>>] \o each_row
                         ELSE each_row]

\* RowValues::read_values after the fetch: every row of the first value range
\* filled on the right with empty cells up to col_size.
PadRows(sheet_values, col_size) ==
    IF ~sheet_values.value_ranges.some THEN <<>>
    ELSE IF Len(sheet_values.value_ranges.v) = 0 THEN <<>>
    ELSE LET first_values == sheet_values.value_ranges.v[1]
         IN  IF ~first_values.values.some THEN <<>>
             ELSE [r \in 1..Len(first_values.values.v) |->
                     LET each_row == first_values.values.v[r]
                     IN  IF Len(each_row) < col_size
                         THEN each_row \o [i \in 1..(col_size - Len(each_row)) |-> <<>>]
                         ELSE each_row]

FetchRowCondition(specific_row_idx, pagination) ==
    [specific_row_idx |-> specific_row_idx, pagination |-> pagination]

\* FetchRowCondition::with_specific_row_idx and ::with_pagination over the
\* row indices, offsets and limits of the model.
RowIdxs == {0, 1, 5}
Offsets == {None, Some(0), Some(1), Some(3)}
Limits == {None, Some(0), Some(1), Some(2),
           Some(MAX_ROW_NUMBER_TO_READ_AT_ONCE - 1),
           Some(MAX_ROW_NUMBER_TO_READ_AT_ONCE),
           Some(MAX_ROW_NUMBER_TO_READ_AT_ONCE + 1)}
RowConditions ==
    {FetchRowCondition(Some(r), None) : r \in RowIdxs}
    \cup {FetchRowCondition(None, Some([offset |-> o, limit |-> l])) :
            o \in Offsets, l \in Limits}

\* GetSpreadSheetQuery: every page without a row, and every row without a
\* page and with offset 1 and limit 2.
GetSpreadSheetQuery(offset, limit, row) == [offset |-> offset, limit |-> limit, row |-> row]
RowQueries ==
    {GetSpreadSheetQuery(o, l, None) : o \in Offsets, l \in Limits}
    \cup {GetSpreadSheetQuery(None, None, Some(r)) : r \in RowIdxs}
    \cup {GetSpreadSheetQuery(Some(1), Some(2), Some(r)) : r \in RowIdxs}

\* as_row_search_condition taking the page when the query has one.
as_row_search_condition_mut(self) ==
    IF self.row.some /\ ~self.offset.some /\ ~self.limit.some
    THEN FetchRowCondition(self.row, None)
    ELSE FetchRowCondition(None, Some([offset |-> self.offset, limit |-> self.limit]))

\* GetSpreadSheetQuery::as_row_search_condition
as_row_search_condition(self) ==
    IF self.row.some
    THEN FetchRowCondition(self.row, None)
    ELSE FetchRowCondition(None, Some([offset |-> self.offset, limit |-> self.limit]))

\* fetch_sheet_value from the return of read_raw_headers to the
\* get_sheet_value call of read_values, or to its own return.  The row
\* condition is an argument of the call; it is first read here.  An
\* addition or subtraction that overflows panics when the build has
\* overflow checks and wraps around when it has none.
FetchWindowWith(queries) ==
    /\ hpc = "headers_done"
    /\ IF ~headers.v.ok
       THEN /\ hpc' = "done"
            /\ response' = Some([ok |-> FALSE, err |-> headers.v.err, from |-> "header"])
            /\ UNCHANGED <<query, row_cond, requests>>
       ELSE \E q \in queries, overflow_checks \in BOOLEAN :
            LET rc == as_row_search_condition(q)
                w == RowWindow(headers.v, rc)
                prop == find_property_by_name(condition.sheet_info, condition.sheet_name)
                option == [sheet_name |-> condition.sheet_name,
                           col_range |-> col_range_indices(headers.v.range),
                           start_row_idx |-> w.start_row_idx,
                           end_row_idx |-> w.finish_row_idx]
                req == ReadValuesRequest(option)
            IN  /\ row_cond' = Some(rc)
                /\ query' = Some(q)
                /\ IF RowWindowOverflows(headers.v, rc) /\ overflow_checks
                   THEN /\ hpc' = "panicked"
                        /\ response' = response
                        /\ requests' = requests
                   ELSE IF ~prop.some
                   THEN /\ hpc' = "done"
                        /\ response' = Some([ok |-> FALSE, err |-> "UnknwonError",
                                             from |-> "header"])
                        /\ requests' = requests
                   ELSE IF prop.v.row_count <= w.start_row_idx
                   THEN /\ hpc' = "done"
                        /\ response' = Some([ok |-> TRUE, headers |-> headers.v,
                                             row_values |-> <<>>,
                                             pagination |-> w.pagination])
                        /\ requests' = requests
                   ELSE IF ValidateOverflows(option) /\ overflow_checks
                   THEN /\ hpc' = "panicked"
                        /\ response' = response
                        /\ requests' = requests
                   ELSE IF ~req.ok
                   THEN /\ hpc' = "done"
                        /\ response' = Some([ok |-> FALSE, err |-> req.err,
                                             from |-> "value"])
                        /\ requests' = requests
                   ELSE /\ hpc' = "reading"
                        /\ response' = response
                        /\ requests' = Append(requests, [kind |-> "data", text |-> req.text])
    /\ UNCHANGED <<sheet, condition, header_range, all_sheet_values, headers,
                   create_args, create_result, answers, jvars, tvars, avars>>

\* FetchWindow fetching a window that starts right after the last row.
FetchWindow_mut ==
    /\ hpc = "headers_done"
    /\ IF ~headers.v.ok
       THEN /\ hpc' = "done"
            /\ response' = Some([ok |-> FALSE, err |-> headers.v.err, from |-> "header"])
            /\ UNCHANGED <<query, row_cond, requests>>
       ELSE \E q \in RowQueries, overflow_checks \in BOOLEAN :
            LET rc == as_row_search_condition(q)
                w == RowWindow(headers.v, rc)
                prop == find_property_by_name(condition.sheet_info, condition.sheet_name)
                option == [sheet_name |-> condition.sheet_name,
                           col_range |-> col_range_indices(headers.v.range),
                           start_row_idx |-> w.start_row_idx,
                           end_row_idx |-> w.finish_row_idx]
                req == ReadValuesRequest(option)
            IN  /\ row_cond' = Some(rc)
                /\ query' = Some(q)
                /\ IF RowWindowOverflows(headers.v, rc) /\ overflow_checks
                   THEN /\ hpc' = "panicked"
                        /\ response' = response
                        /\ requests' = requests
                   ELSE IF ~prop.some
                   THEN /\ hpc' = "done"
                        /\ response' = Some([ok |-> FALSE, err |-> "UnknwonError",
                                             from |-> "header"])
                        /\ requests' = requests
                   ELSE IF prop.v.row_count < w.start_row_idx
                   THEN /\ hpc' = "done"
                        /\ response' = Some([ok |-> TRUE, headers |-> headers.v,
                                             row_values |-> <<>>,
                                             pagination |-> w.pagination])
                        /\ requests' = requests
                   ELSE IF ValidateOverflows(option) /\ overflow_checks
                   THEN /\ hpc' = "panicked"
                        /\ response' = response
                        /\ requests' = requests
                   ELSE IF ~req.ok
                   THEN /\ hpc' = "done"
                        /\ response' = Some([ok |-> FALSE, err |-> req.err,
                                             from |-> "value"])
                        /\ requests' = requests
                   ELSE /\ hpc' = "reading"
                        /\ response' = response
                        /\ requests' = Append(requests, [kind |-> "data", text |-> req.text])
    /\ UNCHANGED <<sheet, condition, header_range, all_sheet_values, headers,
                   create_args, create_result, answers, jvars, tvars, avars>>

\* fetch_sheet_value called with the row condition of a query of the model.
FetchWindow == FetchWindowWith(RowQueries)

\* ReadValuesResponse reporting a NotFound answer as FetchValueApiError.
ReadValuesResponse_mut ==
    /\ hpc = "reading"
    /\ \E out \in GatewayOutcomes(sheet, requests[Len(requests)].text) :
         /\ answers' = Append(answers, out.status)
         /\ hpc' = "done"
         /\ response' =
              IF out.status \in {"not_found", "bad_request", "transport_error"}
              THEN Some([ok |-> FALSE, err |-> "FetchValueApiError", from |-> "value"])
              ELSE Some([ok |-> TRUE, headers |-> headers.v,
                         row_values |-> PadRows(out.sheet_values,
                                            col_range_size(headers.v.range)),
                         pagination |-> RowWindow(headers.v, row_cond.v).pagination])
    /\ UNCHANGED <<sheet, condition, header_range, all_sheet_values, requests, headers,
                   query, row_cond, create_args, create_result, jvars, tvars, avars>>

\* read_values from the answer of get_sheet_value to the return of
\* fetch_sheet_value.
ReadValuesResponse ==
    /\ hpc = "reading"
    /\ \E out \in GatewayOutcomes(sheet, requests[Len(requests)].text) :
         /\ answers' = Append(answers, out.status)
         /\ hpc' = "done"
         /\ response' =
              IF out.status = "not_found"
              THEN Some([ok |-> FALSE, err |-> "SpreadSheetNotFound", from |-> "value"])
              ELSE IF out.status \in {"bad_request", "transport_error"}
              THEN Some([ok |-> FALSE, err |-> "FetchValueApiError", from |-> "value"])
              ELSE Some([ok |-> TRUE, headers |-> headers.v,
                         row_values |-> PadRows(out.sheet_values,
                                            col_range_size(headers.v.range)),
                         pagination |-> RowWindow(headers.v, row_cond.v).pagination])
    /\ UNCHANGED <<sheet, condition, header_range, all_sheet_values, requests, headers,
                   query, row_cond, create_args, create_result, jvars, tvars, avars>>

(***************************************************************************)
(* The sheets and header search conditions of the model.                   *)
(***************************************************************************)
SheetProperty(sheet_id, title, row_count, column_count) ==
    [sheet_id |-> sheet_id, title |-> title, row_count |-> row_count,
     column_count |-> column_count]

ColumnCounts == {3, 26, 28, MaxColumnCount}
RowCounts == {1, 4}
EmptyColCandidates == {0, 2, 26, 27, 52}

\* A first tab of any size with any empty header cells, and a small second tab.
Sheets ==
    {[sheets |-> <<SheetProperty(0, "s1", rc, cc), SheetProperty(7, "s2", 3, 3)>>,
      empty_cols |-> e] :
        rc \in RowCounts, cc \in ColumnCounts,
        e \in {x \in SUBSET EmptyColCandidates : Cardinality(x) <= 2}}

SheetNames == {None, Some("s1"), Some("s2"), Some("zz")}
\* No explicit header range, B1:D1, B2:D2 and the two-row A1:B2.
SpecifiedCellRanges ==
    {None, Some(<<CellRef(1, 0), CellRef(3, 0)>>), Some(<<CellRef(1, 1), CellRef(3, 1)>>),
     Some(<<CellRef(0, 0), CellRef(1, 1)>>)}

\* HeaderSearchCondition::new
HeaderSearchCondition(sheet_name, specified_cell_range, sheet_info) ==
    [sheet_name |-> sheet_name, specified_cell_range |-> specified_cell_range,
     sheet_info |-> sheet_info]

JsonIdle ==
    /\ strs = <<>>
    /\ obj = [keys |-> <<>>, values |-> [k \in {} |-> None]]
    /\ add_results = <<>>
    /\ prev_obj = [keys |-> <<>>, values |-> [k \in {} |-> None]]
    /\ built = None

TokenIdle ==
    /\ tm = "uninitialized"
    /\ refresh_period = None
    /\ inner_current_token = None
    /\ token_requests = <<>>
    /\ stores = <<>>
    /\ loop_pc = "none"
    /\ loop_deadline = 0
    /\ loop_req = None
    /\ force_pc = "idle"
    /\ force_req = None
    /\ seen = None
    /\ now = 0
    /\ chan = [senders |-> TRUE, pending |-> FALSE, sent |-> FALSE]

FetchIdle ==
    /\ sheet = None
    /\ condition = None
    /\ hpc = "none"
    /\ header_range = None
    /\ all_sheet_values = None
    /\ requests = <<>>
    /\ headers = None
    /\ query = None
    /\ row_cond = None
    /\ response = None
    /\ create_args = None
    /\ create_result = None
    /\ answers = <<>>

ColumnIdle ==
    /\ col_n = 0
    /\ col_alphabet = None
    /\ col_num = None

TextIdle ==
    /\ range_src = None
    /\ range_in = None
    /\ range_out = None
    /\ range_fmt = None
    /\ cell_in = None
    /\ cell_out = None

RangeIdle ==
    /\ rref = None
    /\ rref_prev = None
    /\ rref_calls = <<>>
    /\ rref_text = None
    /\ rref_back = None

SanitizerIdle ==
    /\ cell_value = <<>>
    /\ cell_result = None

AlgebraIdle ==
    /\ ColumnIdle
    /\ TextIdle
    /\ RangeIdle
    /\ SanitizerIdle

(***************************************************************************)
(* HeaderSearchCondition::create (header.rs, sheet.rs, api/operation.rs)   *)
(***************************************************************************)
\* SheetIdOrName
SheetMeta(tab_sheet_id, tab_sheet_name) ==
    [tab_sheet_id |-> tab_sheet_id, tab_sheet_name |-> tab_sheet_name]

\* No tab id, the first tab, the second tab and a tab the sheet does not
\* have, each without a name; every name without an id; an id with a name.
TabIds == {None, Some(0), Some(7), Some(9)}
SheetMetas ==
    {SheetMeta(id, None) : id \in TabIds}
        \cup {SheetMeta(None, n) : n \in SheetNames}
        \cup {SheetMeta(Some(9), Some("s2"))}

\* SheetIdOrName::is_need_get_sheet_name_by_id
is_need_get_sheet_name_by_id(self) ==
    IF ~self.tab_sheet_name.some /\ self.tab_sheet_id.some /\ self.tab_sheet_id.v # 0
    THEN self.tab_sheet_id
    ELSE None

\* Sheet::find_property_by_id
find_property_by_id(sheets, sheet_id) ==
    IF \E i \in 1..Len(sheets) : sheets[i].sheet_id = sheet_id
    THEN Some(sheets[CHOOSE i \in 1..Len(sheets) :
                       /\ sheets[i].sheet_id = sheet_id
                       /\ \A j \in 1..(i - 1) : sheets[j].sheet_id # sheet_id])
    ELSE None

\* What one get_sheet call can return: the metadata of the spread sheet, or
\* a NotFound, BadRequest or transport (reqwest) failure.
GetSheetOutcomes(sh) ==
    {[status |-> "ok", sheet_info |-> sh.sheets], [status |-> "not_found"],
     [status |-> "bad_request"], [status |-> "transport_error"]}

\* HeaderSearchCondition::create after get_sheet has answered: the sheet name
\* is the title of the tab with the id, or the name given.
CreateWithSheetInfo(meta, specified_cell_range, sheet_info) ==
    LET sheet_id == is_need_get_sheet_name_by_id(meta)
    IN  IF sheet_id.some
        THEN LET prop == find_property_by_id(sheet_info, sheet_id.v)
             IN  IF prop.some
                 THEN [ok |-> TRUE,
                       v |-> HeaderSearchCondition(Some(prop.v.title), specified_cell_range,
                                                   sheet_info)]
                 ELSE Err("FetchSheetNameError")
        ELSE [ok |-> TRUE,
              v |-> HeaderSearchCondition(meta.tab_sheet_name, specified_cell_range,
                                          sheet_info)]

\* HeaderError::is_not_found and ValueError::is_not_found
is_not_found(e) == e = "SpreadSheetNotFound"

\* HeaderSearchCondition::create up to its get_sheet call
Create ==
    /\ hpc = "create"
    /\ hpc' = "creating"
    /\ requests' = Append(requests, [kind |-> "meta", text |-> None])
    /\ UNCHANGED <<sheet, condition, header_range, all_sheet_values, headers, query, row_cond,
                   response, create_args, create_result, answers, jvars, tvars, avars>>

\* HeaderSearchCondition::create from the answer of get_sheet to its return;
\* fetch_sheet_value is called with the condition when there is one.
CreateResponse ==
    /\ hpc = "creating"
    /\ \E out \in GetSheetOutcomes(sheet) :
         LET result ==
               IF out.status = "not_found" THEN Err("SpreadSheetNotFound")
               ELSE IF out.status \in {"bad_request", "transport_error"}
               THEN Err("FetchSheetInfoError")
               ELSE CreateWithSheetInfo(create_args.meta, create_args.specified_cell_range,
                                        out.sheet_info)
         IN  /\ answers' = Append(answers, out.status)
             /\ create_result' = Some(result)
             /\ IF result.ok
                THEN /\ condition' = result.v
                     /\ hpc' = "start"
                ELSE /\ condition' = condition
                     /\ hpc' = "create_failed"
    /\ UNCHANGED <<sheet, header_range, all_sheet_values, requests, headers, query, row_cond,
                   response, create_args, jvars, tvars, avars>>

\* Either every sheet is probed without tab id, name or explicit range, or
\* one sheet is searched under every tab id, sheet name and explicit range.
FetchInit ==
    /\ sheet \in Sheets
    /\ create_args \in
         {[meta |-> m, specified_cell_range |-> r] :
            m \in SheetMetas, r \in SpecifiedCellRanges}
    /\ \/ create_args.meta = SheetMeta(None, None) /\ create_args.specified_cell_range = None
       \/ sheet.sheets[1].column_count = 3 /\ sheet.empty_cols \subseteq {2}
    /\ condition = None
    /\ create_result = None
    /\ answers = <<>>
    /\ hpc = "create"
    /\ header_range = None
    /\ all_sheet_values = None
    /\ requests = <<>>
    /\ headers = None
    /\ query = None
    /\ row_cond = None
    /\ response = None
    /\ JsonIdle
    /\ TokenIdle
    /\ AlgebraIdle

FetchNext ==
    \/ Create
    \/ CreateResponse
    \/ ReadRawHeadersStart
    \/ ProbeResponse
    \/ FetchWindow
    \/ ReadValuesResponse

SpecFetch == FetchInit /\ [][FetchNext]_vars

(***************************************************************************)
(* Properties of the header resolver and the value fetcher.                *)
(***************************************************************************)
\* The tab the condition selects, and the label a cell of it should give.
SelectedTab == find_property_by_name(sheet.sheets, condition.sheet_name).v
Sanitized(cell) == sanitize_str_value(JsonToString(cell)).v
HeaderRequests == SelectSeq(requests, LAMBDA q : q.kind = "header")
DataRequests == SelectSeq(requests, LAMBDA q : q.kind = "data")
HeadersOk == headers.some /\ headers.v.ok
NoSpecifiedRange == condition # None /\ ~condition.specified_cell_range.some

\* C1: in the RawHeaders a successful read_raw_headers returns, the number of
\* labels equals range.col_range_size() and values[i] is the sanitized
\* content of the header-row cell in column range.start.col_index + i.
C1_LabelsMatchRange ==
    HeadersOk =>
        /\ Len(headers.v.values) = col_range_size(headers.v.range)
        /\ \A i \in 1..Len(headers.v.values) :
             headers.v.values[i] =
               Sanitized(SheetCell(sheet.empty_cols, headers.v.range.start.row_index,
                                   headers.v.range.start.col_index + i - 1))

\* The rows a requested range text spans.
RowsSpanned(text) == text.end_row - text.start_row + 1

\* C2: in paginated mode the requested data range starts at row
\* headers.range.next_row_index() + offset (default 0) and spans exactly limit
\* rows (default DEFAULT_ROW_NUMBER_TO_READ_AT_ONCE).
C2_PageWindow ==
    \A i \in 1..Len(DataRequests) :
        (row_cond.some /\ ~row_cond.v.specific_row_idx.some) =>
            LET offset == IF row_cond.v.pagination.v.offset.some
                          THEN row_cond.v.pagination.v.offset.v ELSE 0
                limit == IF row_cond.v.pagination.v.limit.some
                         THEN row_cond.v.pagination.v.limit.v
                         ELSE DEFAULT_ROW_NUMBER_TO_READ_AT_ONCE
            IN  /\ DataRequests[i].text.start_row - 1
                     = next_row_index(headers.v.range) + offset
                /\ RowsSpanned(DataRequests[i].text) = limit

\* C3: no data fetch requests more than MAX_ROW_NUMBER_TO_READ_AT_ONCE rows;
\* a window taller than the maximum fails with TooManyRowNumber and sends no
\* data range to the gateway.
C3_AtMostMaxRows ==
    /\ \A i \in 1..Len(DataRequests) :
         RowsSpanned(DataRequests[i].text) <= MAX_ROW_NUMBER_TO_READ_AT_ONCE
    /\ (/\ response.some
        /\ row_cond.some
        /\ RowWindow(headers.v, row_cond.v).finish_row_idx
             - RowWindow(headers.v, row_cond.v).start_row_idx
             > MAX_ROW_NUMBER_TO_READ_AT_ONCE
        /\ RowWindow(headers.v, row_cond.v).start_row_idx < SelectedTab.row_count)
       => /\ ~response.v.ok
          /\ response.v.err = "TooManyRowNumber"
          /\ Len(DataRequests) = 0

\* The column of the first empty cell of row 1 of the selected tab, or the
\* column count when no cell of the row is empty.
FirstEmptyHeaderCol ==
    Min((sheet.empty_cols \cap (0..(SelectedTab.column_count - 1)))
        \cup {SelectedTab.column_count})

\* C4: without an explicit header range the returned labels are exactly the
\* cells of row 1 from column A up to the first empty cell, so no label comes
\* from a column right of an empty cell and no label is empty.
C4_HeadersEndAtFirstEmpty ==
    (HeadersOk /\ NoSpecifiedRange) =>
        /\ headers.v.values =
             [i \in 1..FirstEmptyHeaderCol |-> Sanitized(SheetCell(sheet.empty_cols, 0, i - 1))]
        /\ \A i \in 1..Len(headers.v.values) : headers.v.values[i] # <<>>

\* ceil(C / 26)
ProbeLimit(column_count) == (column_count + 25) \div 26

\* C5: header probing terminates: without an explicit range at most
\* ceil(column_count / 26) value fetches are issued, the k-th probe covers the
\* columns 26k..26k+25 of row 1, and no probe starts at or beyond column_count.
C5_ProbesBounded ==
    (NoSpecifiedRange /\ Len(HeaderRequests) > 0) =>
        /\ Len(HeaderRequests) <= ProbeLimit(SelectedTab.column_count)
        /\ \A k \in 1..Len(HeaderRequests) :
             /\ A1ColumnIndex(HeaderRequests[k].text.start_col) = 26 * (k - 1)
             /\ A1ColumnIndex(HeaderRequests[k].text.end_col) = 26 * (k - 1) + 25
             /\ HeaderRequests[k].text.start_row = 1
             /\ HeaderRequests[k].text.end_row = 1
             /\ A1ColumnIndex(HeaderRequests[k].text.start_col) < SelectedTab.column_count

\* C5 witness: probing has finished after three windows.
C5_Witness ==
    /\ NoSpecifiedRange
    /\ headers.some
    /\ Len(HeaderRequests) = 3
    /\ SelectedTab.column_count > 52

\* The labels the k-th probe window (k = 0, 1, ..) yields: the cells from
\* column 26k up to the first empty cell or the end of the window or grid.
WindowYield(k) ==
    LET last == Min({26 * k + 25, SelectedTab.column_count - 1})
        stop == Min((sheet.empty_cols \cap ((26 * k)..last)) \cup {last + 1})
    IN  [i \in 1..(stop - 26 * k) |-> Sanitized(SheetCell(sheet.empty_cols, 0, 26 * k + i - 1))]

RECURSIVE Accumulated(_)
Accumulated(k) == IF k = 0 THEN <<>> ELSE Accumulated(k - 1) \o WindowYield(k - 1)

\* The windows that lie inside the grid.
Windows == 0..(ProbeLimit(SelectedTab.column_count) - 1)
ZeroYieldWindows == {k \in Windows : Len(WindowYield(k)) = 0}
GatewayFailed ==
    headers.some /\ ~headers.v.ok
    /\ headers.v.err \in {"SpreadSheetNotFound", "FetchHeaderApiError"}

\* C6: without an explicit header range, when every fetch is answered: a
\* first window yielding zero headers fails with EmptyHeaderValues; a later
\* window yielding zero headers after some were accumulated makes resolution
\* succeed with the headers accumulated until then.
C6_ZeroYield ==
    (/\ NoSpecifiedRange
     /\ headers.some
     /\ ~GatewayFailed
     /\ find_property_by_name(sheet.sheets, condition.sheet_name).some
     /\ ZeroYieldWindows # {}) =>
        IF Min(ZeroYieldWindows) = 0
        THEN ~headers.v.ok /\ headers.v.err = "EmptyHeaderValues"
        ELSE headers.v.ok /\ headers.v.values = Accumulated(Min(ZeroYieldWindows))

\* The tab id given to create when it is non-zero and no name is given.
TabIdToResolve ==
    IF /\ create_args.meta.tab_sheet_id.some
       /\ create_args.meta.tab_sheet_id.v # 0
       /\ ~create_args.meta.tab_sheet_name.some
    THEN create_args.meta.tab_sheet_id
    ELSE None

\* The tabs of the spread sheet that have the id.
TabsWithId(id) == {i \in 1..Len(sheet.sheets) : sheet.sheets[i].sheet_id = id}

\* C16: when a non-zero tab id and no sheet name are given, create resolves
\* the sheet name to the title of the metadata sheet with that id; when no
\* sheet of the metadata has the id it fails with an error whose
\* is_not_found() is true.
C16_TabIdResolvesOrNotFound ==
    (create_result.some /\ answers[1] = "ok" /\ TabIdToResolve.some) =>
        IF TabsWithId(TabIdToResolve.v) # {}
        THEN /\ create_result.v.ok
             /\ \E i \in TabsWithId(TabIdToResolve.v) :
                  create_result.v.v.sheet_name = Some(sheet.sheets[i].title)
        ELSE /\ ~create_result.v.ok
             /\ is_not_found(create_result.v.err)

\* The operation has returned, and what it returned: the error of create, or
\* the result of fetch_sheet_value.
OperationReturned == hpc \in {"create_failed", "done"}
OperationResult == IF hpc = "create_failed" THEN create_result.v ELSE response.v

\* C17: a NotFound answer of the gateway to the metadata fetch, to a header
\* probe or to the data fetch makes the operation fail with an error whose
\* is_not_found() is true, any other failure of the gateway with one whose
\* is_not_found() is false; the failed call is the last call issued.
C17_GatewayFailureEndsOperation ==
    \A i \in 1..Len(answers) :
        answers[i] # "ok" =>
            /\ i = Len(answers)
            /\ Len(requests) = i
            /\ hpc \in {"create_failed", "headers_done", "done"}
            /\ OperationReturned =>
                 /\ ~OperationResult.ok
                 /\ is_not_found(OperationResult.err) <=> (answers[i] = "not_found")

\* C17 witness: the metadata fetch and two header probes were answered, the
\* data fetch was answered NotFound and the operation has returned.
C17_Witness ==
    /\ Len(answers) = 4
    /\ answers[4] = "not_found"
    /\ requests[4].kind = "data"
    /\ OperationReturned
    /\ is_not_found(OperationResult.err)

\* The start row the row condition asks for: the row after the header row
\* plus the row index, or plus the offset (0 when there is none).
StartRowAsked ==
    headers.v.range.end.row_index + 1
        + (IF query.v.row.some THEN query.v.row.v
           ELSE IF query.v.offset.some THEN query.v.offset.v ELSE 0)

\* C18: when the computed start row is at or beyond the row count the sheet
\* reports, fetch_sheet_value returns Ok with the resolved headers and an
\* empty row list and issues no data fetch.
C18_StartBeyondGridIsEmptyOk ==
    (response.some /\ query.some /\ HeadersOk /\ StartRowAsked >= SelectedTab.row_count) =>
        /\ response.v.ok
        /\ response.v.headers = headers.v
        /\ response.v.row_values = <<>>
        /\ Len(DataRequests) = 0

\* C18 witness: a page that starts exactly at the row count of a sheet with
\* rows below the header returned empty.
C18_Witness ==
    /\ response.some /\ query.some /\ HeadersOk
    /\ SelectedTab.row_count > 1
    /\ StartRowAsked = SelectedTab.row_count
    /\ ~query.v.row.some
    /\ response.v.ok
    /\ Len(DataRequests) = 0

\* The width of the header range.
HeaderWidth == headers.v.range.end.col_index - headers.v.range.start.col_index + 1

\* C19: every row read_values returns has exactly as many cells as the
\* header range has columns; a shorter gateway row is extended on the right
\* with empty cells, its cells keeping their values and positions.
C19_RowsPaddedToHeaderWidth ==
    (response.some /\ response.v.ok /\ Len(DataRequests) = 1) =>
        \A r \in 1..Len(response.v.row_values) :
            /\ Len(response.v.row_values[r]) = HeaderWidth
            /\ \A c \in 1..HeaderWidth :
                 response.v.row_values[r][c] =
                   SheetCell(sheet.empty_cols, DataRequests[1].text.start_row - 1 + r - 1,
                             headers.v.range.start.col_index + c - 1)

\* C19 witness: a row came back whose last cells were filled in after a
\* first cell with content.
C19_Witness ==
    /\ response.some /\ response.v.ok /\ Len(DataRequests) = 1
    /\ \E r \in 1..Len(response.v.row_values) :
         /\ Len(response.v.row_values[r]) = HeaderWidth
         /\ HeaderWidth >= 3
         /\ response.v.row_values[r][1] # <<>>
         /\ response.v.row_values[r][HeaderWidth] = <<>>

\* C20: when the query has a row index, offset and limit are ignored:
\* exactly one row is requested, at next_row_index() + row, and the response
\* carries no pagination.
C20_RowIndexWins ==
    (query.some /\ query.v.row.some /\ HeadersOk) =>
        /\ Len(DataRequests) <= 1
        /\ \A i \in 1..Len(DataRequests) :
             /\ DataRequests[i].text.start_row = DataRequests[i].text.end_row
             /\ DataRequests[i].text.start_row - 1
                  = headers.v.range.end.row_index + 1 + query.v.row.v
        /\ (response.some /\ response.v.ok) => response.v.pagination = None
        /\ (response.some /\ headers.v.range.end.row_index + 1 + query.v.row.v
                               < SelectedTab.row_count) => Len(DataRequests) = 1

\* C20 witness: a query with a row index, an offset and a limit was answered
\* with the one row.
C20_Witness ==
    /\ query.some /\ query.v.row.some /\ query.v.offset.some /\ query.v.limit.some
    /\ response.some /\ response.v.ok
    /\ Len(DataRequests) = 1
    /\ Len(response.v.row_values) = 1

(***************************************************************************)
(* StructureBuilder (json_structure/mod.rs)                                *)
(*                                                                         *)
(* An Object is its keys list and its values map; a Structure is an        *)
(* Object, an Array(key, indices) or a Value(key, index).                  *)
(***************************************************************************)
\* Object::new
ObjectNew == [keys |-> <<>>, values |-> [k \in {} |-> None]]

new_obj(o) == [kind |-> "Object", obj |-> o]
new_arr(k, v) == [kind |-> "Array", key |-> k, indices |-> v]
new_value(k, v) == [kind |-> "Value", key |-> k, idx |-> v]

\* str::trim of a key segment
RECURSIVE TrimStart(_)
TrimStart(s) ==
    IF Len(s) > 0 /\ s[1] = " " THEN TrimStart(SubSeq(s, 2, Len(s))) ELSE s

Trim(s) == TrimTrailing(TrimStart(s), " ")

\* str::split("."): the pieces between the dots, one more than the dots.
RECURSIVE SplitDots(_, _)
SplitDots(s, piece) ==
    IF Len(s) = 0 THEN <<piece>>
    ELSE IF s[1] = "." THEN <<piece>> \o SplitDots(SubSeq(s, 2, Len(s)), <<>>)
    ELSE SplitDots(SubSeq(s, 2, Len(s)), Append(piece, s[1]))

\* split_keys
split_keys(keys) ==
    LET pieces == SplitDots(keys, <<>>)
    IN  [i \in 1..Len(pieces) |-> Trim(pieces[i])]

\* Object::inner_add with the key pushed even when it is already present.
inner_add_mut(self, key, v) ==
    [keys |-> Append(self.keys, key),
     values |-> [k \in DOMAIN self.values \cup {key} |->
                   IF k = key THEN v ELSE self.values[k]]]

\* Object::inner_add
inner_add(self, key, v) ==
    IF key \in DOMAIN self.values
    THEN [self EXCEPT !.values[key] = v]
    ELSE [keys |-> Append(self.keys, key),
          values |-> [k \in DOMAIN self.values \cup {key} |->
                        IF k = key THEN v ELSE self.values[k]]]

\* AddLastKey seeding the array with the new index first.
AddLastKey_mutorder(self, current_key, idx) ==
    IF current_key \notin DOMAIN self.values
    THEN [ok |-> TRUE, obj |-> inner_add(self, current_key, new_value(current_key, idx))]
    ELSE LET existing == self.values[current_key]
         IN  IF existing.kind = "Object"
             THEN [ok |-> FALSE, err |-> "InvalidJsonStructureDef", obj |-> self]
             ELSE IF existing.kind = "Array"
             THEN [ok |-> TRUE,
                   obj |-> [self EXCEPT !.values[current_key].indices = Append(@, idx)]]
             ELSE [ok |-> TRUE,
                   obj |-> inner_add(self, current_key,
                                     new_arr(existing.key, <<idx, existing.idx>>))]

\* AddLastKey replacing an Object the key already holds by the new value.
AddLastKey_mutobject(self, current_key, idx) ==
    IF current_key \notin DOMAIN self.values
    THEN [ok |-> TRUE, obj |-> inner_add(self, current_key, new_value(current_key, idx))]
    ELSE LET existing == self.values[current_key]
         IN  IF existing.kind = "Object"
             THEN [ok |-> TRUE,
                   obj |-> inner_add(self, current_key, new_value(current_key, idx))]
             ELSE IF existing.kind = "Array"
             THEN [ok |-> TRUE,
                   obj |-> [self EXCEPT !.values[current_key].indices = Append(@, idx)]]
             ELSE [ok |-> TRUE,
                   obj |-> inner_add(self, current_key,
                                     new_arr(existing.key, <<existing.idx, idx>>))]

\* add_value_with_key_seq at the last key of the sequence: a new Value, an
\* append to an Array, the upgrade of a Value to an Array, or the error for
\* an Object.  The result carries the Object as the call leaves it.
AddLastKey(self, current_key, idx) ==
    IF current_key \notin DOMAIN self.values
    THEN [ok |-> TRUE, obj |-> inner_add(self, current_key, new_value(current_key, idx))]
    ELSE LET existing == self.values[current_key]
         IN  IF existing.kind = "Object"
             THEN [ok |-> FALSE, err |-> "InvalidJsonStructureDef", obj |-> self]
             ELSE IF existing.kind = "Array"
             THEN [ok |-> TRUE,
                   obj |-> [self EXCEPT !.values[current_key].indices = Append(@, idx)]]
             ELSE [ok |-> TRUE,
                   obj |-> inner_add(self, current_key,
                                     new_arr(existing.key, <<existing.idx, idx>>))]

\* Object::add_value_with_key_seq; key_idx is zero-based.  An existing nested
\* Object is changed in place by the recursive call, whatever it returns.
RECURSIVE add_value_with_key_seq(_, _, _, _)
add_value_with_key_seq(self, key_idx, key_seq, idx) ==
    LET current_key == key_seq[key_idx + 1]
        is_last_key_of_seq == (Len(key_seq) - 1) = key_idx
    IN  IF is_last_key_of_seq
        THEN AddLastKey(self, current_key, idx)
        ELSE IF current_key \notin DOMAIN self.values
        THEN LET sub == add_value_with_key_seq(ObjectNew, key_idx + 1, key_seq, idx)
             IN  IF ~sub.ok
                 THEN [ok |-> FALSE, err |-> sub.err, obj |-> self]
                 ELSE [ok |-> TRUE, obj |-> inner_add(self, current_key, new_obj(sub.obj))]
        ELSE LET existing == self.values[current_key]
             IN  IF existing.kind = "Object"
                 THEN LET sub == add_value_with_key_seq(existing.obj, key_idx + 1,
                                                        key_seq, idx)
                          changed == [self EXCEPT !.values[current_key].obj = sub.obj]
                      IN  IF ~sub.ok
                          THEN [ok |-> FALSE, err |-> sub.err, obj |-> changed]
                          ELSE [ok |-> TRUE, obj |-> changed]
                 ELSE [ok |-> FALSE, err |-> "InvalidJsonStructureDef", obj |-> self]

\* Object::add_value
add_value(self, key, idx) ==
    LET key_seq == split_keys(key)
    IN  IF Len(key_seq) = 0
        THEN [ok |-> FALSE, err |-> "InvalidKey", obj |-> self]
        ELSE IF \E i \in 1..Len(key_seq) : Len(key_seq[i]) = 0
        THEN [ok |-> FALSE, err |-> "InvalidKey", obj |-> self]
        ELSE add_value_with_key_seq(self, 0, key_seq, idx)

\* Structure::build_json and Object::build_json over one row of cells; index
\* is zero-based.  An Object gives its (key, value) pairs in keys order.
RECURSIVE StructureBuildJson(_, _)
RECURSIVE ObjectBuildFrom(_, _, _, _)
ObjectBuildFrom(o, values, i, value_map) ==
    IF i > Len(o.keys)
    THEN [ok |-> TRUE, v |-> [kind |-> "Object", pairs |-> value_map]]
    ELSE LET each_key == o.keys[i]
         IN  IF each_key \notin DOMAIN o.values
             THEN [ok |-> FALSE, err |-> "InvalidStructureState"]
             ELSE LET json_value == StructureBuildJson(o.values[each_key], values)
                  IN  IF ~json_value.ok THEN json_value
                      ELSE ObjectBuildFrom(o, values, i + 1,
                               Append(value_map, [key |-> each_key, value |-> json_value.v]))

ObjectBuildJson(o, values) == ObjectBuildFrom(o, values, 1, <<>>)

StructureBuildJson(st, values) ==
    IF st.kind = "Object" THEN ObjectBuildJson(st.obj, values)
    ELSE IF st.kind = "Array"
    THEN IF \E n \in 1..Len(st.indices) : st.indices[n] + 1 > Len(values)
         THEN [ok |-> FALSE, err |-> "ValueOutOfRange"]
         ELSE [ok |-> TRUE,
               v |-> [kind |-> "Array",
                      items |-> [n \in 1..Len(st.indices) |-> values[st.indices[n] + 1]]]]
    ELSE IF st.idx + 1 > Len(values)
         THEN [ok |-> FALSE, err |-> "ValueOutOfRange"]
         ELSE [ok |-> TRUE, v |-> [kind |-> "Value", value |-> values[st.idx + 1]]]

\* The most add_value calls made on one Object.
MaxHeaders == 4

\* The header texts of the model: "a", "b", " a", "a.b", "a.c", "a.b.c",
\* "a." and the empty text.
HeaderTexts ==
    {<<"a">>, <<"b">>, <<" ", "a">>, <<"a", ".", "b">>, <<"a", ".", "c">>,
     <<"a", ".", "b", ".", "c">>, <<"a", ".">>, <<>>}

\* A row of n cells, and the rows of the model: one cell per header and one
\* cell short.
RowOf(n) == [i \in 1..n |-> 100 + i - 1]
Rows == {RowOf(MaxHeaders), RowOf(MaxHeaders - 1)}

\* One add_value call, with the index from_strs and the tests give it: the
\* number of calls made before.
AddValue ==
    /\ Len(strs) < MaxHeaders
    /\ \E key \in HeaderTexts :
         LET r == add_value(obj, key, Len(strs))
         IN  /\ obj' = r.obj
             /\ prev_obj' = obj
             /\ strs' = Append(strs, key)
             /\ add_results' = Append(add_results,
                                  IF r.ok THEN [ok |-> TRUE] ELSE [ok |-> FALSE, err |-> r.err])
             /\ built' = None
    /\ UNCHANGED <<hvars, tvars, avars>>

\* Structure::new_obj(obj).build_json(row)
BuildJson ==
    /\ ~built.some
    /\ \E row \in Rows :
         built' = Some([row |-> row, result |-> StructureBuildJson(new_obj(obj), row)])
    /\ UNCHANGED <<strs, obj, add_results, prev_obj, hvars, tvars, avars>>

JsonInit ==
    /\ JsonIdle
    /\ FetchIdle
    /\ TokenIdle
    /\ AlgebraIdle

JsonNext == AddValue \/ BuildJson

SpecJson == JsonInit /\ [][JsonNext]_vars

(***************************************************************************)
(* Properties of the structure builder.                                    *)
(***************************************************************************)
\* The dotted path of the i-th header text, and the set of all paths.
PathOf(i) == split_keys(strs[i])
AllOk == \A i \in 1..Len(add_results) : add_results[i].ok
IsPrefix(p, q) == Len(p) <= Len(q) /\ SubSeq(q, 1, Len(p)) = p

\* Every key segment is non-empty and no path is a proper prefix of another.
ValidKeys == \A i \in 1..Len(strs) : \A n \in 1..Len(PathOf(i)) : Len(PathOf(i)[n]) > 0
ConflictFree ==
    \A i, j \in 1..Len(strs) :
        ~(IsPrefix(PathOf(i), PathOf(j)) /\ Len(PathOf(i)) < Len(PathOf(j)))

\* The node of a built JSON tree at a path.
RECURSIVE JsonAt(_, _)
JsonAt(json, p) ==
    IF Len(p) = 0 THEN Some(json)
    ELSE IF json.kind # "Object" THEN None
    ELSE IF \E n \in 1..Len(json.pairs) : json.pairs[n].key = p[1]
    THEN JsonAt(json.pairs[CHOOSE n \in 1..Len(json.pairs) : json.pairs[n].key = p[1]].value,
                SubSeq(p, 2, Len(p)))
    ELSE None

\* The paths of the leaves (cells and arrays) of a built JSON tree.
RECURSIVE LeafPaths(_, _)
LeafPaths(json, prefix) ==
    IF json.kind # "Object" THEN {prefix}
    ELSE UNION {LeafPaths(json.pairs[n].value, Append(prefix, json.pairs[n].key)) :
                  n \in 1..Len(json.pairs)}

\* The header indices (one-based) whose path is p, ascending.
IndicesOf(p) == SelectSeq([i \in 1..Len(strs) |-> i], LAMBDA i : PathOf(i) = p)

RECURSIVE NodeAt(_, _)
NodeAt(o, p) ==
    IF p[1] \notin DOMAIN o.values THEN None
    ELSE IF Len(p) = 1 THEN Some(o.values[p[1]])
    ELSE IF o.values[p[1]].kind # "Object" THEN None
    ELSE NodeAt(o.values[p[1]].obj, SubSeq(p, 2, Len(p)))

\* A non-final segment of the path names a Value or an Array, or the final
\* segment names an Object.
StructureConflict(o, p) ==
    \/ \E n \in 1..(Len(p) - 1) :
         /\ NodeAt(o, SubSeq(p, 1, n)).some
         /\ NodeAt(o, SubSeq(p, 1, n)).v.kind \in {"Value", "Array"}
    \/ /\ NodeAt(o, p).some
       /\ NodeAt(o, p).v.kind = "Object"

LastPath == PathOf(Len(strs))
LastResult == add_results[Len(add_results)]
LastKeyValid == \A n \in 1..Len(LastPath) : Len(LastPath[n]) > 0

\* C8: add_value fails with InvalidJsonStructureDef when a non-final segment
\* names a key holding a Value or an Array or the final segment names a key
\* holding an Object; every failing call, an invalid key included, leaves the
\* structure as it was.
C8_ConflictsFailUnchanged ==
    Len(strs) > 0 =>
        /\ (LastKeyValid /\ StructureConflict(prev_obj, LastPath)) =>
             (~LastResult.ok /\ LastResult.err = "InvalidJsonStructureDef")
        /\ ~LastKeyValid => (~LastResult.ok /\ LastResult.err = "InvalidKey")
        /\ ~LastResult.ok => obj = prev_obj

\* C8 witness: a call failed on a conflict two levels down in a structure
\* that holds several keys.
C8_Witness ==
    /\ Len(strs) > 1
    /\ ~LastResult.ok
    /\ LastResult.err = "InvalidJsonStructureDef"
    /\ Len(LastPath) = 3
    /\ Len(prev_obj.keys) > 1

\* The keys an Object at a path should list: the next segments of the
\* accepted headers below that path, each once, in the order first added.
RECURSIVE FirstSeenKeys(_, _, _)
FirstSeenKeys(prefix, i, acc) ==
    IF i > Len(strs) THEN acc
    ELSE LET p == PathOf(i)
             below == add_results[i].ok /\ IsPrefix(prefix, p) /\ Len(prefix) < Len(p)
             seg == p[Len(prefix) + 1]
         IN  FirstSeenKeys(prefix, i + 1,
                 IF below /\ ~(\E n \in 1..Len(acc) : acc[n] = seg)
                 THEN Append(acc, seg) ELSE acc)

\* Every Object of the tree lists exactly the keys of its map, in first-added
\* order.
RECURSIVE KeysInOrder(_, _)
KeysInOrder(o, prefix) ==
    /\ o.keys = FirstSeenKeys(prefix, 1, <<>>)
    /\ {o.keys[n] : n \in 1..Len(o.keys)} = DOMAIN o.values
    /\ \A m, n \in 1..Len(o.keys) : o.keys[m] = o.keys[n] => m = n
    /\ \A k \in DOMAIN o.values :
         o.values[k].kind = "Object" => KeysInOrder(o.values[k].obj, Append(prefix, k))

\* Every Object of the built JSON holds one pair per key, in keys order.
RECURSIVE PairsInOrder(_, _)
PairsInOrder(json, o) ==
    /\ json.kind = "Object"
    /\ [n \in 1..Len(json.pairs) |-> json.pairs[n].key] = o.keys
    /\ \A n \in 1..Len(json.pairs) :
         o.values[o.keys[n]].kind = "Object" =>
             PairsInOrder(json.pairs[n].value, o.values[o.keys[n]].obj)

\* The last call turned a Value into an Array.
Upgraded ==
    /\ Len(strs) > 0
    /\ LastKeyValid
    /\ NodeAt(prev_obj, LastPath).some
    /\ NodeAt(prev_obj, LastPath).v.kind = "Value"
    /\ NodeAt(obj, LastPath).some
    /\ NodeAt(obj, LastPath).v.kind = "Array"

\* The keys list of the Object that holds the node at a path.
RECURSIVE KeysAround(_, _)
KeysAround(o, p) ==
    IF Len(p) = 1 THEN o.keys ELSE KeysAround(o.values[p[1]].obj, SubSeq(p, 2, Len(p)))

\* C9: after any sequence of add_value calls every Object lists each key of
\* its map exactly once and nothing else, in the order first added; the
\* upgrade of a Value to an Array leaves the keys list as it was, and
\* build_json emits one pair per key in that order.
C9_KeyOrder ==
    /\ KeysInOrder(obj, <<>>)
    /\ Upgraded => KeysAround(obj, LastPath) = KeysAround(prev_obj, LastPath)
    /\ (built.some /\ built.v.result.ok) => PairsInOrder(built.v.result.v, obj)

\* C9 witness: a Value below a nested Object with two keys was upgraded to an
\* Array and the tree was projected.
C9_Witness ==
    /\ built.some /\ built.v.result.ok
    /\ Upgraded
    /\ Len(LastPath) = 2
    /\ Len(KeysAround(obj, LastPath)) = 2
    /\ Len(obj.keys) = 2

(***************************************************************************)
(* TokenManager (token_manager.rs)                                         *)
(*                                                                         *)
(* The clock counts units of 30 seconds.  An AccessToken is its value and  *)
(* its optional expiry; the value of the token answering the k-th request  *)
(* of the authenticator is k.  Every await of the code ends one action.    *)
(***************************************************************************)
\* Duration::minutes(2)
TOKEN_BUFFER_DURATION_TO_EXPIRE == 4
\* std::time::Duration::from_secs(30)
DEFAULT_REFRESH_PERIOD == 1

MaxTime == 2
MaxRequests == 3

AccessToken(value, expires_at) == [value |-> value, expires_at |-> expires_at]
expiration_time(token) == token.expires_at

\* What the authenticator can answer at time t to its k-th request: an error,
\* or a token without expiry or with a lifetime one unit longer than the
\* buffer.
TokenLifetimes == {TOKEN_BUFFER_DURATION_TO_EXPIRE + 1}
TokenOutcomes(k, t) ==
    {[ok |-> FALSE, err |-> "OauthError"]}
        \cup {[ok |-> TRUE, v |-> AccessToken(k, e)] :
                e \in {None} \cup {Some(t + l) : l \in TokenLifetimes}}

RefreshPeriods == {None, Some(2)}

\* the period of the loop: token_refresh_period, or 30 seconds
PeriodOf(token_refresh_period) ==
    IF token_refresh_period.some THEN token_refresh_period.v ELSE DEFAULT_REFRESH_PERIOD

\* ArcSwap::load
load(swap) == swap.v

\* ArcSwap::store keeping the stored token when it answers a later request.
store_newer(swap, access_token) ==
    IF swap.v.value > access_token.value THEN swap ELSE Some(access_token)

\* ArcSwap::store writing the value of the new token over the stored one and
\* leaving the stored expiry.
store_mut(swap, access_token) == Some([swap.v EXCEPT !.value = access_token.value])

\* ArcSwap::store: the stored token is replaced as a whole.
store(swap, access_token) == Some(access_token)

\* need_refresh that leaves the token alone at the instant expiry minus the
\* buffer is reached.
need_refresh_mut(current_token, t) ==
    IF expiration_time(current_token).some
    THEN expiration_time(current_token).v - TOKEN_BUFFER_DURATION_TO_EXPIRE < t
    ELSE FALSE

\* need_refresh of the loop
need_refresh(current_token, t) ==
    IF expiration_time(current_token).some
    THEN expiration_time(current_token).v - TOKEN_BUFFER_DURATION_TO_EXPIRE <= t
    ELSE FALSE

\* A request is issued: it is numbered by its place in token_requests.
IssueRequest(by) == token_requests' = Append(token_requests, [by |-> by, result |-> None])
AnswerRequest(k, out) == token_requests' = [token_requests EXCEPT ![k].result = Some(out)]

\* TokenManager::start up to the await of authenticator.token
Start ==
    /\ tm = "uninitialized"
    /\ \E p \in RefreshPeriods : refresh_period' = p
    /\ tm' = "starting"
    /\ IssueRequest("start")
    /\ UNCHANGED <<inner_current_token, stores, loop_pc, loop_deadline, loop_req, force_pc,
                   force_req, seen, now, chan, hvars, jvars, avars>>

\* TokenManager::start from the answer of authenticator.token: the error, or
\* the ArcSwap holding the first token and the loop spawned.
StartResponse ==
    /\ tm = "starting"
    /\ \E out \in TokenOutcomes(Len(token_requests), now) :
         /\ AnswerRequest(Len(token_requests), out)
         /\ IF out.ok
            THEN /\ inner_current_token' = Some(out.v)
                 /\ stores' = <<out.v>>
                 /\ loop_pc' = "waiting"
                 /\ loop_deadline' = now + PeriodOf(refresh_period)
                 /\ tm' = "started"
            ELSE /\ tm' = "failed"
                 /\ UNCHANGED <<inner_current_token, stores, loop_pc, loop_deadline>>
    /\ UNCHANGED <<refresh_period, loop_req, force_pc, force_req, seen, now, chan,
                   hvars, jvars, avars>>

\* LoopRecvStop taking the message and going on to wait.
LoopRecvStop_mut ==
    /\ loop_pc = "waiting"
    /\ chan.pending
    /\ loop_pc' = "waiting"
    /\ chan' = [chan EXCEPT !.pending = FALSE]
    /\ UNCHANGED <<tm, refresh_period, inner_current_token, token_requests, stores,
                   loop_deadline, loop_req, force_pc, force_req, seen, now, hvars, jvars, avars>>

\* The loop: recv returns the stop message, the timeout is Ok and the loop
\* breaks.
LoopRecvStop ==
    /\ loop_pc = "waiting"
    /\ chan.pending
    /\ loop_pc' = "exited"
    /\ chan' = [chan EXCEPT !.pending = FALSE]
    /\ UNCHANGED <<tm, refresh_period, inner_current_token, token_requests, stores,
                   loop_deadline, loop_req, force_pc, force_req, seen, now, hvars, jvars, avars>>

\* The loop: every sender is gone and no message is left, recv returns
\* Err(Closed), the timeout is Ok(Err(Closed)), is_ok() holds and the loop
\* breaks.
LoopRecvClosed ==
    /\ loop_pc = "waiting"
    /\ ~chan.pending
    /\ ~chan.senders
    /\ loop_pc' = "exited"
    /\ UNCHANGED <<tm, refresh_period, inner_current_token, token_requests, stores,
                   loop_deadline, loop_req, force_pc, force_req, seen, now, chan,
                   hvars, jvars, avars>>

\* The loop: the timeout elapsed; the stored token is loaded and, when it
\* needs a refresh, a new token is requested.
LoopTick ==
    /\ loop_pc = "waiting"
    /\ ~chan.pending
    /\ chan.senders
    /\ now >= loop_deadline
    /\ LET current_token == load(inner_current_token)
       IN  IF need_refresh(current_token, now)
           THEN /\ Len(token_requests) < MaxRequests
                /\ IssueRequest("loop")
                /\ loop_req' = Some(Len(token_requests) + 1)
                /\ loop_pc' = "requesting"
                /\ UNCHANGED loop_deadline
           ELSE /\ loop_deadline' = now + PeriodOf(refresh_period)
                /\ UNCHANGED <<token_requests, loop_req, loop_pc>>
    /\ UNCHANGED <<tm, refresh_period, inner_current_token, stores, force_pc, force_req,
                   seen, now, chan, hvars, jvars, avars>>

\* LoopResponse with a failed request ending the loop.
LoopResponse_mut ==
    /\ loop_pc = "requesting"
    /\ \E out \in TokenOutcomes(loop_req.v, now) :
         /\ AnswerRequest(loop_req.v, out)
         /\ IF out.ok
            THEN /\ inner_current_token' = store(inner_current_token, out.v)
                 /\ stores' = Append(stores, out.v)
                 /\ loop_pc' = "waiting"
            ELSE /\ loop_pc' = "exited"
                 /\ UNCHANGED <<inner_current_token, stores>>
    /\ loop_req' = None
    /\ loop_deadline' = now + PeriodOf(refresh_period)
    /\ UNCHANGED <<tm, refresh_period, force_pc, force_req, seen, now, chan, hvars, jvars, avars>>

\* The loop from the answer of get_new_token to the next timeout: the new
\* token is stored, or the error is logged.
LoopResponse ==
    /\ loop_pc = "requesting"
    /\ \E out \in TokenOutcomes(loop_req.v, now) :
         /\ AnswerRequest(loop_req.v, out)
         /\ IF out.ok
            THEN /\ inner_current_token' = store(inner_current_token, out.v)
                 /\ stores' = Append(stores, out.v)
            ELSE UNCHANGED <<inner_current_token, stores>>
    /\ loop_req' = None
    /\ loop_pc' = "waiting"
    /\ loop_deadline' = now + PeriodOf(refresh_period)
    /\ UNCHANGED <<tm, refresh_period, force_pc, force_req, seen, now, chan, hvars, jvars, avars>>

\* force_refresh_token up to the await of get_new_token
ForceRefreshStart ==
    /\ tm = "started"
    /\ force_pc # "requesting"
    /\ Len(token_requests) < MaxRequests
    /\ IssueRequest("force")
    /\ force_req' = Some(Len(token_requests) + 1)
    /\ force_pc' = "requesting"
    /\ UNCHANGED <<tm, refresh_period, inner_current_token, stores, loop_pc, loop_deadline,
                   loop_req, seen, now, chan, hvars, jvars, avars>>

\* force_refresh_token from the answer to its return: the new token is
\* stored and Ok returned, or the error is returned.
ForceRefreshResponse ==
    /\ force_pc = "requesting"
    /\ \E out \in TokenOutcomes(force_req.v, now) :
         /\ AnswerRequest(force_req.v, out)
         /\ IF out.ok
            THEN /\ inner_current_token' = store(inner_current_token, out.v)
                 /\ stores' = Append(stores, out.v)
                 /\ force_pc' = "returned_ok"
            ELSE /\ force_pc' = "returned_err"
                 /\ UNCHANGED <<inner_current_token, stores>>
    /\ force_req' = None
    /\ UNCHANGED <<tm, refresh_period, loop_pc, loop_deadline, loop_req, seen, now, chan,
                   hvars, jvars, avars>>

\* A reader: current_token().load().  It remembers the token and how many
\* values had been stored when it loaded.
Load ==
    /\ tm \in {"started", "joining", "finished"}
    /\ seen' = Some([token |-> load(inner_current_token), nstores |-> Len(stores)])
    /\ UNCHANGED <<tm, refresh_period, inner_current_token, token_requests, stores, loop_pc,
                   loop_deadline, loop_req, force_pc, force_req, now, chan, hvars, jvars, avars>>

\* wait_until_refreshing_finished takes the manager and awaits the loop.
WaitUntilRefreshingFinished ==
    /\ tm = "started"
    /\ force_pc # "requesting"
    /\ tm' = "joining"
    /\ UNCHANGED <<refresh_period, inner_current_token, token_requests, stores, loop_pc,
                   loop_deadline, loop_req, force_pc, force_req, seen, now, chan,
                   hvars, jvars, avars>>

\* wait_until_refreshing_finished returns once the loop has exited.
RefreshingFinished ==
    /\ tm = "joining"
    /\ loop_pc = "exited"
    /\ tm' = "finished"
    /\ UNCHANGED <<refresh_period, inner_current_token, token_requests, stores, loop_pc,
                   loop_deadline, loop_req, force_pc, force_req, seen, now, chan,
                   hvars, jvars, avars>>

\* The owner of the channel sends the stop signal (main.rs).
SendStop ==
    /\ chan.senders
    /\ ~chan.sent
    /\ chan' = [chan EXCEPT !.pending = TRUE, !.sent = TRUE]
    /\ UNCHANGED <<tm, refresh_period, inner_current_token, token_requests, stores, loop_pc,
                   loop_deadline, loop_req, force_pc, force_req, seen, now, hvars, jvars, avars>>

\* Every sender of the channel is dropped.
DropSenders ==
    /\ chan.senders
    /\ chan' = [chan EXCEPT !.senders = FALSE]
    /\ UNCHANGED <<tm, refresh_period, inner_current_token, token_requests, stores, loop_pc,
                   loop_deadline, loop_req, force_pc, force_req, seen, now, hvars, jvars, avars>>

\* Time passes.
Advance ==
    /\ now < MaxTime
    /\ now' = now + 1
    /\ UNCHANGED <<tm, refresh_period, inner_current_token, token_requests, stores, loop_pc,
                   loop_deadline, loop_req, force_pc, force_req, seen, chan, hvars, jvars, avars>>

TokenInit ==
    /\ TokenIdle
    /\ FetchIdle
    /\ JsonIdle
    /\ AlgebraIdle

TokenNext ==
    \/ Start
    \/ StartResponse
    \/ LoopRecvStop
    \/ LoopRecvClosed
    \/ LoopTick
    \/ LoopResponse
    \/ ForceRefreshStart
    \/ ForceRefreshResponse
    \/ Load
    \/ WaitUntilRefreshingFinished
    \/ RefreshingFinished
    \/ SendStop
    \/ DropSenders
    \/ Advance

SpecToken == TokenInit /\ [][TokenNext]_vars

\* The loop is a spawned task that the runtime polls when its receiver or its
\* request is ready, and the task awaiting the join handle is woken when the
\* loop has ended; an answer to a request in flight is assumed to arrive.
SpecTokenLive ==
    /\ TokenInit
    /\ [][TokenNext]_vars
    /\ WF_vars(LoopRecvStop)
    /\ WF_vars(LoopResponse)
    /\ WF_vars(RefreshingFinished)

(***************************************************************************)
(* Properties of the token manager.                                        *)
(***************************************************************************)
StartSucceeded == tm \in {"started", "joining", "finished"}

\* The tokens that successful requests have returned.
TokensReturned ==
    {token_requests[k].result.v.v :
        k \in {n \in 1..Len(token_requests) :
                 token_requests[n].result.some /\ token_requests[n].result.v.ok}}

\* A token request is in flight.
RefreshInFlight == loop_pc = "requesting" \/ force_pc = "requesting"

\* Once start has succeeded the stored token is one token a successful
\* request returned and the one stored last, and so was what a reader loaded.
C10_Authoritative ==
    StartSucceeded =>
        /\ inner_current_token.some
        /\ load(inner_current_token) \in TokensReturned
        /\ load(inner_current_token) = stores[Len(stores)]
        /\ seen.some =>
             /\ seen.v.token \in TokensReturned
             /\ seen.v.nstores \in 1..Len(stores)
             /\ seen.v.token = stores[seen.v.nstores]

\* The stored token changes only in the step that stores the answer of a
\* request that was in flight, and becomes that answer.
C10_ChangesOnlyByStore ==
    (StartSucceeded /\ inner_current_token' # inner_current_token) =>
        /\ stores' = Append(stores, load(inner_current_token'))
        /\ \E k \in 1..Len(token_requests) :
             /\ ~token_requests[k].result.some
             /\ token_requests'[k].result = Some([ok |-> TRUE, v |-> load(inner_current_token')])

\* C10: after start has succeeded, under any interleaving of readers, the
\* periodic refresh and forced refreshes, load() returns one complete token
\* that a successful request returned and that was stored last; no mixture
\* of two tokens is ever seen, and a refresh in flight changes nothing a
\* reader sees until it stores.
C10_LoadReturnsLatestStored == []C10_Authoritative /\ [][C10_ChangesOnlyByStore]_vars

\* C10 witness: while a refresh was in flight a reader loaded the token that
\* an earlier refresh had stored over the first one.
C10_Witness ==
    /\ StartSucceeded
    /\ Len(stores) >= 2
    /\ stores[Len(stores)] # stores[1]
    /\ seen.some
    /\ seen.v.nstores = Len(stores)
    /\ seen.v.token = load(inner_current_token)
    /\ RefreshInFlight

\* A step of the loop that is a tick: the timeout elapsed with no message,
\* and the loop either requests a token or starts the next timeout.
LoopTickStep ==
    /\ loop_pc = "waiting"
    /\ \/ loop_pc' = "requesting"
       \/ loop_pc' = "waiting" /\ loop_deadline' # loop_deadline

\* The step issues a token request on behalf of the loop.
LoopRequestsToken ==
    /\ Len(token_requests') = Len(token_requests) + 1
    /\ token_requests'[Len(token_requests')] = [by |-> "loop", result |-> None]
    /\ loop_pc' = "requesting"

\* The stored token has an expiry, and the expiry minus two minutes (four
\* units of 30 seconds) is at or before now.
StoredTokenNearExpiry ==
    /\ inner_current_token.v.expires_at.some
    /\ inner_current_token.v.expires_at.v - 4 <= now

\* A step in which the loop receives the answer of its request.
LoopAnswerStep == loop_pc = "requesting" /\ loop_pc' = "waiting"

C11_TickRule ==
    /\ LoopTickStep => (LoopRequestsToken <=> StoredTokenNearExpiry)
    /\ LoopTickStep => (now >= loop_deadline /\ ~chan.pending)
    /\ (LoopAnswerStep /\ token_requests'[loop_req.v].result.v.ok) =>
         /\ inner_current_token' = Some(token_requests'[loop_req.v].result.v.v)
         /\ inner_current_token'.v.value = loop_req.v

\* C11: on each tick of the loop a new token is requested if and only if the
\* stored token has an expiry and the expiry minus the 2-minute buffer is at
\* or before now; when the request succeeds the stored token is replaced by
\* the new token.
C11_TickRefreshesNearExpiry == [][C11_TickRule]_vars

\* C11 witness: the stored token is the answer to a request of the loop,
\* made at a tick after the clock had reached expiry minus the buffer of a
\* token that was still one unit from it when stored.
C11_Witness ==
    /\ StartSucceeded
    /\ Len(stores) = 2
    /\ stores[1].expires_at = Some(TOKEN_BUFFER_DURATION_TO_EXPIRE + 1)
    /\ token_requests[2].by = "loop"
    /\ load(inner_current_token).value = 2
    /\ loop_pc = "waiting"

\* The step receives a failure as the answer of the k-th token request.
RequestFails(k) ==
    /\ ~token_requests[k].result.some
    /\ token_requests'[k].result.some
    /\ ~token_requests'[k].result.v.ok

C12_FailureRule ==
    \A k \in 1..Len(token_requests) :
        RequestFails(k) =>
            /\ inner_current_token' = inner_current_token
            /\ stores' = stores
            /\ token_requests[k].by = "loop" =>
                 /\ loop_pc' = "waiting"
                 /\ loop_deadline' >= now + 1
                 /\ force_pc' = force_pc
                 /\ tm' = tm
            /\ token_requests[k].by = "force" =>
                 /\ force_pc' = "returned_err"
                 /\ loop_pc' = loop_pc

\* C12: a token request that fails never changes the stored token; a failed
\* periodic refresh reaches no caller and the loop waits for its next tick,
\* a failed force_refresh_token returns the error to its caller.
C12_FailedRequestKeepsToken == [][C12_FailureRule]_vars

\* C12 witness: a refresh of the loop and a forced refresh have both failed,
\* the first token is still the stored one and the loop waits for a tick.
C12_Witness ==
    /\ tm = "started"
    /\ \E k \in 1..Len(token_requests) :
         /\ token_requests[k].by = "loop"
         /\ token_requests[k].result.some
         /\ ~token_requests[k].result.v.ok
    /\ force_pc = "returned_err"
    /\ stores = <<load(inner_current_token)>>
    /\ loop_pc = "waiting"

LoopRunning == loop_pc \in {"waiting", "requesting"}

\* C13: once a stop signal has been sent the loop eventually exits (a token
\* request in flight completing first), and wait_until_refreshing_finished
\* then returns.
C13_StopEndsLoop ==
    /\ (chan.sent /\ LoopRunning) ~> (loop_pc = "exited")
    /\ (chan.sent /\ tm = "joining") ~> (tm = "finished")

\* C13 witness: the stop signal was sent and taken by the loop while the
\* senders were alive, the loop has exited after a refresh of its own, and
\* wait_until_refreshing_finished has returned.
C13_Witness ==
    /\ chan.sent
    /\ chan.senders
    /\ ~chan.pending
    /\ loop_pc = "exited"
    /\ tm = "finished"
    /\ \E k \in 1..Len(token_requests) : token_requests[k].by = "loop"

\* C14: the loop never exits while no stop signal has been sent on the
\* channel, in particular not when every sender has been dropped without
\* sending.
C14_LoopRunsUntilStop == (loop_pc = "exited") => chan.sent

\* The step receives a token as the answer of the k-th token request.
RequestSucceeds(k) ==
    /\ ~token_requests[k].result.some
    /\ token_requests'[k].result.some
    /\ token_requests'[k].result.v.ok

C15_OverwriteRule ==
    \A k \in 1..Len(token_requests) :
        (RequestSucceeds(k) /\ StartSucceeded /\ load(inner_current_token).value > k) =>
            load(inner_current_token') = token_requests'[k].result.v.v

\* C15: forced and periodic refresh are not serialized: when the answer of
\* the request issued earlier arrives after the token of the request issued
\* later was stored, it is stored over it and the older token is
\* authoritative.
C15_EarlierRequestOverwritesLater == [][C15_OverwriteRule]_vars

\* C15 witness: of a refresh of the loop and a forced refresh, the token of
\* the one issued later was stored first and the token of the one issued
\* earlier is the stored token.
C15_Witness ==
    /\ Len(stores) = 3
    /\ stores[2].value > stores[3].value
    /\ load(inner_current_token) = stores[3]
    /\ {token_requests[2].by, token_requests[3].by} = {"loop", "force"}

(***************************************************************************)
(* The column letters as a state machine: an index is encoded with         *)
(* num_to_alphabet_base_number and the letters are decoded with            *)
(* col_alphabet_to_num (range.rs).                                         *)
(***************************************************************************)
\* The largest column index converted: 'ZZZ'.
MaxColumnIndex == 18277

\* The last index with one letter, with two letters and with three letters:
\* 25, 701 and 18277.
LastOneLetter == Len(ALPHABET) - 1
LastTwoLetters == Len(ALPHABET) * (LastOneLetter + 1) + LastOneLetter
LastThreeLetters == Len(ALPHABET) * (LastTwoLetters + 1) + LastOneLetter

ColumnInit ==
    /\ col_n \in 0..MaxColumnIndex
    /\ col_alphabet = None
    /\ col_num = None
    /\ TextIdle
    /\ RangeIdle
    /\ SanitizerIdle
    /\ FetchIdle
    /\ JsonIdle
    /\ TokenIdle

EncodeColumn ==
    /\ ~col_alphabet.some
    /\ col_n \in 0..MaxColumnIndex
    /\ col_alphabet' = Some(num_to_alphabet_base_number(col_n))
    /\ UNCHANGED <<col_n, col_num, xvars, rvars, svars, hvars, jvars, tvars>>

DecodeColumn ==
    /\ col_alphabet.some
    /\ ~col_num.some
    /\ col_num' = Some(col_alphabet_to_num(col_alphabet.v))
    /\ UNCHANGED <<col_n, col_alphabet, xvars, rvars, svars, hvars, jvars, tvars>>

ColumnNext ==
    \/ EncodeColumn
    \/ DecodeColumn

SpecColumn == ColumnInit /\ [][ColumnNext]_vars

\* The letters the tests of range.rs expect for an index.
LiteralColumns ==
    {<<0, <<"A">> >>, <<1, <<"B">> >>, <<25, <<"Z">> >>, <<26, <<"A", "A">> >>,
     <<27, <<"A", "B">> >>, <<51, <<"A", "Z">> >>, <<52, <<"B", "A">> >>,
     <<129, <<"D", "Z">> >>}

\* C21: decoding the encoded letters of an index from 0 to 701 gives the
\* index back; these indices have one or two letters, with 0 = A, 25 = Z,
\* 26 = AA, 51 = AZ, 52 = BA and 129 = DZ.
C21_ColumnRoundTrip ==
    (col_alphabet.some /\ col_n <= LastTwoLetters) =>
        /\ Len(col_alphabet.v) = (IF col_n <= LastOneLetter THEN 1 ELSE 2)
        /\ \A l \in LiteralColumns : l[1] = col_n => col_alphabet.v = l[2]
        /\ col_num.some => col_num.v = [ok |-> TRUE, v |-> col_n]

\* C21 witness: index 129 was encoded as DZ and decoded back.
C21_Witness ==
    /\ col_n = 129
    /\ col_alphabet = Some(<<"D", "Z">>)
    /\ col_num = Some([ok |-> TRUE, v |-> 129])

\* C22: decoding the encoded letters of an index from 702 (AAA) to 18277
\* (ZZZ) gives the index back, and no other three-letter column decodes to
\* the same index.
C22_ThreeLetterRoundTrip ==
    (col_num.some /\ col_n > LastTwoLetters /\ col_n <= LastThreeLetters) =>
        /\ Len(col_alphabet.v) = 3
        /\ col_num.v = [ok |-> TRUE, v |-> col_n]
        /\ \A m \in (LastTwoLetters + 1)..LastThreeLetters :
             m # col_n =>
               col_alphabet_to_num(num_to_alphabet_base_number(m)) # col_num.v

(***************************************************************************)
(* Range and cell texts as a state machine: a text is parsed with          *)
(* RangeRef::from_str and the parsed range is written with to_string();    *)
(* a cell text is parsed with CellRef::from_str (range.rs).                *)
(***************************************************************************)
\* The column letters and row numbers the texts are written from: one, two
\* and three letters, and the row 0.
ColumnTexts == {<<"A">>, <<"B">>, <<"B", "A">>, <<"Z", "Z">>, <<"A", "A", "A">>}
RowTexts == {<<"0">>, <<"1">>, <<"2">>, <<"1", "0">>}

\* The sheet names: plain, with a space, with one single quote inside.
PlainSheetNames == {<<"s">>, <<"s", " ", "1">>}
QuotedSheetNames == PlainSheetNames \cup {<<"a", SINGLE_QUOTE, "b">>}

\* A sheet name as the grammar writes it between quotes: every single quote
\* doubled.
RECURSIVE EscapeSheetName(_)
EscapeSheetName(name) ==
    IF Len(name) = 0 THEN name
    ELSE (IF name[1] = SINGLE_QUOTE THEN <<SINGLE_QUOTE, SINGLE_QUOTE>> ELSE <<name[1]>>)
         \o EscapeSheetName(SubSeq(name, 2, Len(name)))

RangeSources ==
    {[form |-> "none", name |-> <<>>, start_col |-> c1, start_row |-> r1,
      end_col |-> c2, end_row |-> r2] :
        c1 \in ColumnTexts, r1 \in RowTexts, c2 \in ColumnTexts, r2 \in RowTexts}
    \cup {[form |-> "quoted", name |-> n, start_col |-> c1, start_row |-> r1,
           end_col |-> c2, end_row |-> r2] :
        n \in QuotedSheetNames,
        c1 \in ColumnTexts, r1 \in RowTexts, c2 \in ColumnTexts, r2 \in RowTexts}
    \cup {[form |-> "bare", name |-> n, start_col |-> c1, start_row |-> r1,
           end_col |-> c2, end_row |-> r2] :
        n \in PlainSheetNames,
        c1 \in ColumnTexts, r1 \in RowTexts, c2 \in ColumnTexts, r2 \in RowTexts}

\* The text of the range grammar for the items.
RangeText(src) ==
    (IF src.form = "quoted"
     THEN <<SINGLE_QUOTE>> \o EscapeSheetName(src.name) \o <<SINGLE_QUOTE, BANG>>
     ELSE IF src.form = "bare" THEN src.name \o <<BANG>>
     ELSE <<>>)
    \o src.start_col \o src.start_row \o <<COLON>> \o src.end_col \o src.end_row

\* Texts outside the grammar: empty, one cell, no end cell, lower case, a
\* wrong separator, an unclosed quote.
MalformedTexts ==
    {<<>>, <<"A", "1">>, <<"A", "1", COLON>>, <<"a", "1", COLON, "b", "2">>,
     <<"A", "1", ";", "B", "2">>,
     <<SINGLE_QUOTE, "s", BANG, "B", "2", COLON, "B", "2">>}

CellTexts == {c \o r : c \in ColumnTexts, r \in RowTexts} \cup {<<>>, <<"b", "1">>, <<"B">>}

TextInit ==
    /\ \/ /\ range_src \in {Some(src) : src \in RangeSources}
          /\ range_in = Some(RangeText(range_src.v))
          /\ cell_in = None
       \/ /\ range_src = None
          /\ range_in \in {Some(t) : t \in MalformedTexts}
          /\ cell_in = None
       \/ /\ range_src = None
          /\ range_in = None
          /\ cell_in \in {Some(t) : t \in CellTexts}
    /\ range_out = None
    /\ range_fmt = None
    /\ cell_out = None
    /\ ColumnIdle
    /\ RangeIdle
    /\ SanitizerIdle
    /\ FetchIdle
    /\ JsonIdle
    /\ TokenIdle

ParseRange ==
    /\ range_in.some
    /\ ~range_out.some
    /\ range_out' = Some(RangeRefFromStr(range_in.v))
    /\ UNCHANGED <<range_src, range_in, range_fmt, cell_in, cell_out,
                   cvars, rvars, svars, hvars, jvars, tvars>>

FormatRange ==
    /\ range_out.some
    /\ range_out.v.ok
    /\ ~range_fmt.some
    /\ range_fmt' = Some(RangeRefToString(range_out.v.v))
    /\ UNCHANGED <<range_src, range_in, range_out, cell_in, cell_out,
                   cvars, rvars, svars, hvars, jvars, tvars>>

CellFromStr ==
    /\ cell_in.some
    /\ ~cell_out.some
    /\ cell_out' = Some(CellRefFromStr(cell_in.v))
    /\ UNCHANGED <<range_src, range_in, range_out, range_fmt, cell_in,
                   cvars, rvars, svars, hvars, jvars, tvars>>

TextNext ==
    \/ ParseRange
    \/ FormatRange
    \/ CellFromStr

SpecText == TextInit /\ [][TextNext]_vars

\* What the items of a range text say: no row is 0, and the start cell is at
\* or above-left of the end cell (the columns read as bijective base 26).
RowsFromOne(src) == DecimalValue(src.start_row) >= 1 /\ DecimalValue(src.end_row) >= 1
StartBeforeEnd(src) ==
    /\ A1ColumnIndex(src.start_col) <= A1ColumnIndex(src.end_col)
    /\ DecimalValue(src.start_row) <= DecimalValue(src.end_row)
UpToTwoLetters(src) == Len(src.start_col) <= 2 /\ Len(src.end_col) <= 2

\* C23: for a valid range text with one- or two-letter columns, without
\* sheet prefix, with a quoted sheet name or with a bare sheet name,
\* from_str followed by to_string() returns the text.
C23_ParseFormatRoundTrip ==
    (range_src.some /\ RowsFromOne(range_src.v) /\ StartBeforeEnd(range_src.v)
        /\ UpToTwoLetters(range_src.v)) =>
        /\ range_out.some => range_out.v.ok
        /\ range_fmt.some => range_fmt.v = range_in.v

\* C25: from_str returns an error when a cell has row 0 or the start cell is
\* right of or below the end cell, and Ok only when the rows are >= 1 and the
\* start is at or above-left of the end; CellRef::from_str rejects row 0.
C25_RejectsRowZeroAndDirection ==
    /\ (range_src.some /\ range_out.some) =>
         (range_out.v.ok <=> (RowsFromOne(range_src.v) /\ StartBeforeEnd(range_src.v)))
    /\ (cell_out.some /\ valid_cell_ref_regex(cell_in.v).some
          /\ DecimalValue(valid_cell_ref_regex(cell_in.v).v.RANGE_ROW) = 0) =>
         ~cell_out.v.ok

(***************************************************************************)
(* RangeRef values as a state machine: a value is constructed with         *)
(* RangeRef::new, RangeRef::from_str or HeaderSearchCondition::as_range,   *)
(* modified with expand, shift_in_col and set_end_col_index, written with  *)
(* to_string() and read back with from_str (range.rs, header.rs).          *)
(***************************************************************************)
\* The number of modifying calls made on one value.
MaxRangeCalls == 2

\* The cells and sheet names the values are built from: three columns, two
\* rows; no name, a plain name, a name with one quote, with two quotes.
RangeCells == {CellRef(c, r) : c \in 0..2, r \in 0..1}
RangeNames ==
    {None, Some(<<"s">>), Some(<<"a", SINGLE_QUOTE, "b">>),
     Some(<<"a", SINGLE_QUOTE, SINGLE_QUOTE, "b">>)}

\* The ranges given to expand: inside, to the left, above-left, to the right
\* and below, and a one-cell range.
OtherRanges ==
    {RangeRef(None, CellRef(1, 0), CellRef(1, 0)),
     RangeRef(None, CellRef(0, 0), CellRef(1, 0)),
     RangeRef(None, CellRef(0, 0), CellRef(2, 1)),
     RangeRef(None, CellRef(1, 1), CellRef(3, 2)),
     RangeRef(None, CellRef(2, 1), CellRef(2, 1))}
Shifts == {0 - 1, 1}
EndColIndexes == {0, 2}

\* The texts given to from_str to construct a value.
ConstructTexts ==
    {RangeText(src) : src \in
        {[form |-> f, name |-> <<"s">>, start_col |-> <<"B">>, start_row |-> <<"2">>,
          end_col |-> c, end_row |-> <<"2">>] :
            f \in {"none", "quoted"}, c \in {<<"A">>, <<"B">>, <<"C">>}}}

RangeCall(op, other, arg, ok) == [op |-> op, other |-> other, arg |-> arg, ok |-> ok]

RangeInit ==
    /\ RangeIdle
    /\ ColumnIdle
    /\ TextIdle
    /\ SanitizerIdle
    /\ FetchIdle
    /\ JsonIdle
    /\ TokenIdle

\* RangeRef::new
New ==
    /\ ~rref.some
    /\ \E name \in RangeNames, start \in RangeCells, end \in RangeCells :
         rref' = Some(RangeRef(name, start, end))
    /\ UNCHANGED <<rref_prev, rref_calls, rref_text, rref_back,
                   cvars, xvars, svars, hvars, jvars, tvars>>

\* RangeRef::from_str: a value exists when it returns Ok.
NewFromStr ==
    /\ ~rref.some
    /\ \E text \in ConstructTexts :
         /\ RangeRefFromStr(text).ok
         /\ rref' = Some(RangeRefFromStr(text).v)
    /\ UNCHANGED <<rref_prev, rref_calls, rref_text, rref_back,
                   cvars, xvars, svars, hvars, jvars, tvars>>

\* HeaderSearchCondition::as_range
AsRange ==
    /\ ~rref.some
    /\ \E name \in {None, Some(<<"s">>)}, start \in RangeCells, end \in RangeCells :
         rref' = as_range([sheet_name |-> name,
                           specified_cell_range |-> Some(<<start, end>>)])
    /\ UNCHANGED <<rref_prev, rref_calls, rref_text, rref_back,
                   cvars, xvars, svars, hvars, jvars, tvars>>

Expand ==
    /\ rref.some
    /\ Len(rref_calls) < MaxRangeCalls
    /\ \E other \in OtherRanges :
         /\ rref' = Some(expand(rref.v, other))
         /\ rref_calls' = Append(rref_calls, RangeCall("expand", Some(other), 0, TRUE))
    /\ rref_prev' = rref
    /\ rref_text' = None
    /\ rref_back' = None
    /\ UNCHANGED <<cvars, xvars, svars, hvars, jvars, tvars>>

ShiftInCol ==
    /\ rref.some
    /\ Len(rref_calls) < MaxRangeCalls
    /\ \E shift \in Shifts :
         /\ rref' = Some(shift_in_col(rref.v, shift).range)
         /\ rref_calls' = Append(rref_calls,
                RangeCall("shift_in_col", None, shift, shift_in_col(rref.v, shift).ok))
    /\ rref_prev' = rref
    /\ rref_text' = None
    /\ rref_back' = None
    /\ UNCHANGED <<cvars, xvars, svars, hvars, jvars, tvars>>

SetEndColIndex ==
    /\ rref.some
    /\ Len(rref_calls) < MaxRangeCalls
    /\ \E col_index \in EndColIndexes :
         /\ rref' = Some(set_end_col_index(rref.v, col_index).range)
         /\ rref_calls' = Append(rref_calls,
                RangeCall("set_end_col_index", None, col_index,
                          set_end_col_index(rref.v, col_index).ok))
    /\ rref_prev' = rref
    /\ rref_text' = None
    /\ rref_back' = None
    /\ UNCHANGED <<cvars, xvars, svars, hvars, jvars, tvars>>

\* to_string()
Display ==
    /\ rref.some
    /\ ~rref_text.some
    /\ rref_text' = Some(RangeRefToString(rref.v))
    /\ UNCHANGED <<rref, rref_prev, rref_calls, rref_back,
                   cvars, xvars, svars, hvars, jvars, tvars>>

\* RangeRef::from_str of the displayed text
Reparse ==
    /\ rref_text.some
    /\ ~rref_back.some
    /\ rref_back' = Some(RangeRefFromStr(rref_text.v))
    /\ UNCHANGED <<rref, rref_prev, rref_calls, rref_text,
                   cvars, xvars, svars, hvars, jvars, tvars>>

RangeNext ==
    \/ New
    \/ NewFromStr
    \/ AsRange
    \/ Expand
    \/ ShiftInCol
    \/ SetEndColIndex
    \/ Display
    \/ Reparse

SpecRange == RangeInit /\ [][RangeNext]_vars

\* The text of the range grammar for a range: the sheet name between single
\* quotes with every quote in it doubled.
GrammarText(r) ==
    (IF r.sheet_name.some
     THEN <<SINGLE_QUOTE>> \o EscapeSheetName(r.sheet_name.v) \o <<SINGLE_QUOTE, BANG>>
     ELSE <<>>)
    \o CellRefToString(r.start) \o <<COLON>> \o CellRefToString(r.end)

\* C24: the display form of a valid RangeRef writes a present sheet name
\* between single quotes with every single quote in it doubled, and from_str
\* of the display form returns a RangeRef equal to the original.
C24_DisplayReparses ==
    (rref.some /\ RangeValidate(rref.v)) =>
        /\ rref_text.some => rref_text.v = GrammarText(rref.v)
        /\ rref_back.some => rref_back.v = [ok |-> TRUE, v |-> rref.v]

\* C26: every RangeRef that exists has its start at or above-left of its
\* end, after construction and after every expand, shift_in_col and
\* set_end_col_index call, those that return an error included.
C26_StartBeforeEnd ==
    rref.some =>
        /\ rref.v.start.col_index <= rref.v.end.col_index
        /\ rref.v.start.row_index <= rref.v.end.row_index

\* The last call made on the range value.
LastCall == rref_calls[Len(rref_calls)]
Lesser(a, b) == IF a <= b THEN a ELSE b
Greater(a, b) == IF a >= b THEN a ELSE b

\* C27: after a.expand(b) the start of a is the component-wise minimum of
\* the two starts and the end the component-wise maximum of the two ends; a
\* covers its former self and b, and every range that covers both covers a;
\* a is unchanged if it contained b; expanding again by b changes nothing.
C27_ExpandIsBoundingBox ==
    (Len(rref_calls) > 0 /\ LastCall.op = "expand") =>
        LET a == rref_prev.v
            b == LastCall.other.v
            x == rref.v
        IN  /\ x.start.col_index = Lesser(a.start.col_index, b.start.col_index)
            /\ x.start.row_index = Lesser(a.start.row_index, b.start.row_index)
            /\ x.end.col_index = Greater(a.end.col_index, b.end.col_index)
            /\ x.end.row_index = Greater(a.end.row_index, b.end.row_index)
            /\ x.sheet_name = a.sheet_name
            /\ contains(x, a) /\ contains(x, b)
            /\ \A s \in RangeCells, e \in {CellRef(c, r) : c \in 0..3, r \in 0..2} :
                 (contains(RangeRef(None, s, e), a) /\ contains(RangeRef(None, s, e), b))
                    => contains(RangeRef(None, s, e), x)
            /\ contains(a, b) => x = a
            /\ expand(x, b) = x

\* C27 witness: a range grew both to the left and downwards in one expand,
\* and a second expand by a range it contained left it unchanged.
C27_Witness ==
    /\ Len(rref_calls) = 2
    /\ rref_calls[1].op = "expand" /\ rref_calls[2].op = "expand"
    /\ contains(rref_prev.v, rref_calls[2].other.v)
    /\ rref.v = rref_prev.v
    /\ rref.v.start.col_index < rref.v.end.col_index
    /\ rref.v.end.row_index = 2

(***************************************************************************)
(* The cell sanitizer as a state machine: Cell::sanitize_str_value is      *)
(* applied to a text (cell.rs).                                            *)
(***************************************************************************)
\* The longest text sanitized.
MaxCellLen == 4

\* The characters of the texts: a letter, a space, the double quote, the
\* backslash and the line feed.
CellChars == {"a", " ", QUOTE, BACKSLASH, NEWLINE}

CellValues == UNION {[1..n -> CellChars] : n \in 0..MaxCellLen}

SanitizerInit ==
    /\ cell_value \in CellValues
    /\ cell_result = None
    /\ ColumnIdle
    /\ TextIdle
    /\ RangeIdle
    /\ FetchIdle
    /\ JsonIdle
    /\ TokenIdle

Sanitize ==
    /\ ~cell_result.some
    /\ cell_result' = Some(sanitize_str_value(cell_value))
    /\ UNCHANGED <<cell_value, cvars, xvars, rvars, hvars, jvars, tvars>>

SanitizerNext ==
    \/ Sanitize

SpecSanitizer == SanitizerInit /\ [][SanitizerNext]_vars

\* The text holds a double quote.
HasQuote(s) == \E i \in 1..Len(s) : s[i] = QUOTE

\* The text is one leading double quote, an inner text and one trailing
\* double quote: every quote of the inner text is escaped by a backslash.
WrappedAsAWhole(s) ==
    /\ Len(s) >= 2
    /\ s[1] = QUOTE
    /\ s[Len(s)] = QUOTE
    /\ \A i \in 2..(Len(s) - 1) : s[i] = QUOTE => (i > 2 /\ s[i - 1] = BACKSLASH)

\* C28: sanitize_str_value returns a text without double quote unchanged,
\* the inner text with every escaped quote replaced by a quote when the text
\* is wrapped as a whole, and InvalidCellValue for every other text.
C28_SanitizeStrValue ==
    cell_result.some =>
        IF ~HasQuote(cell_value)
        THEN cell_result.v = [ok |-> TRUE, v |-> cell_value]
        ELSE IF WrappedAsAWhole(cell_value)
        THEN cell_result.v =
               [ok |-> TRUE,
                v |-> ReplaceEscapedQuote(SubSeq(cell_value, 2, Len(cell_value) - 1))]
        ELSE cell_result.v = [ok |-> FALSE, err |-> "InvalidCellValue"]

(***************************************************************************)
(* fetch_sheet_value called with row indexes, offsets and limits over the  *)
(* whole of usize (mod.rs, value.rs, web/spread_sheet_handler.rs).         *)
(***************************************************************************)
\* The values a usize query parameter takes here: the small ones, the page
\* limits, and the values around the largest i64 and the largest usize.
WideValues ==
    {0, 1, MAX_ROW_NUMBER_TO_READ_AT_ONCE, MAX_ROW_NUMBER_TO_READ_AT_ONCE + 1,
     I64_MAX, I64_MAX + 1, USIZE_MAX - 1, USIZE_MAX}

WideQueries ==
    {GetSpreadSheetQuery(o, l, None) :
        o \in {None} \cup {Some(v) : v \in WideValues},
        l \in {None} \cup {Some(v) : v \in WideValues}}
    \cup {GetSpreadSheetQuery(None, None, Some(r)) : r \in WideValues}

\* One sheet of three columns and four rows, searched with an explicit
\* header range.
WindowInit ==
    /\ FetchInit
    /\ sheet.sheets[1] = SheetProperty(0, "s1", 4, 3)
    /\ sheet.empty_cols = {}
    /\ create_args.meta = SheetMeta(None, None)
    /\ create_args.specified_cell_range.some

FetchWindowWide == FetchWindowWith(WideQueries)

WindowNext ==
    \/ Create
    \/ CreateResponse
    \/ ReadRawHeadersStart
    \/ ProbeResponse
    \/ FetchWindowWide
    \/ ReadValuesResponse

SpecWindow == WindowInit /\ [][WindowNext]_vars

\* The end row the row condition asks for: the start row itself for a row
\* index, the start row plus the limit (100 when there is none) otherwise.
FinishRowAsked ==
    IF query.v.row.some THEN StartRowAsked
    ELSE StartRowAsked
           + (IF query.v.limit.some THEN query.v.limit.v
              ELSE DEFAULT_ROW_NUMBER_TO_READ_AT_ONCE)

\* C29: for every row index, offset and limit of usize, fetch_sheet_value
\* does not panic; the rows it requests are the exact next_row_index + row,
\* next_row_index + offset and start + limit; it returns an empty page only
\* when the exact start row is at or beyond the row count.
C29_RowWindowWithoutOverflow ==
    (query.some /\ HeadersOk) =>
        /\ hpc # "panicked"
        /\ \A i \in 1..Len(DataRequests) :
             /\ DataRequests[i].text.start_row - 1 = StartRowAsked
             /\ DataRequests[i].text.end_row - 1 = FinishRowAsked
        /\ (response.some /\ response.v.ok /\ Len(DataRequests) = 0) =>
             StartRowAsked >= SelectedTab.row_count

(***************************************************************************)
(* read_raw_headers: the end of probing at a window with an empty cell     *)
(* (header.rs).                                                            *)
(***************************************************************************)
\* The first row of the values the service returns for a probe window holds
\* an empty string.
ProbeHasEmptyCell(text) ==
    LET returned == GatewayValues(sheet, text)
    IN  /\ returned.status = "ok"
        /\ returned.sheet_values.value_ranges.v[1].values.some
        /\ LET first_row == returned.sheet_values.value_ranges.v[1].values.v[1]
           IN  \E i \in 1..Len(first_row) : first_row[i] = <<>>

\* C30: with no explicit header range, when the first row of a fetched probe
\* window (the answer that follows the answer of create) contains an empty
\* cell, probing finishes with that window: read_raw_headers issues no value
\* fetch after it.
C30_ProbingStopsAtEmptyCell ==
    NoSpecifiedRange =>
        \A k \in 1..Len(HeaderRequests) :
            (/\ Len(answers) >= k + 1
             /\ answers[k + 1] = "ok"
             /\ ProbeHasEmptyCell(HeaderRequests[k].text))
                => k = Len(HeaderRequests)

====
